---- MODULE Spec2Model ----
(***************************************************************************)
(* State-machine model of the vibanalyz audit pipeline:                    *)
(*   - services/pipeline.py      run_pipeline (executor, fatal handling)   *)
(*   - services/tasks/*.py       the tasks of the three chains             *)
(*   - domain/scoring.py         compute_risk_score                        *)
(*   - services/reporting.py, tasks/extract_report_data.py,                *)
(*     tasks/scan_vulnerabilities.py   vulnerability deduplication         *)
(*   - tasks/generate_sbom.py, tasks/extract_report_data.py                *)
(*     _analyze_sbom_structure   roots, depth, direct and transitive deps  *)
(* Finding messages are not modelled; a Finding is [source, severity].     *)
(* Strings that the code lower-cases are sequences of characters.          *)
(***************************************************************************)
EXTENDS Integers, Sequences, FiniteSets, TLC

VARIABLES
    pc,            \* position of the run_pipeline coroutine
    repo_source,   \* ctx.repo_source
    registry,      \* keys of services.tasks._TASKS
    tasks,         \* run_pipeline's resolved task list
    index,         \* loop index of run_pipeline (1-based)
    awaiting,      \* the running task is suspended in run_in_executor
    ctx,           \* the Context threaded through the tasks
    err,           \* the PipelineFatalError in flight
    result,        \* the AuditResult returned by run_pipeline
    raised,        \* exception that escaped run_pipeline
    status_calls,  \* tasks whose get_status_message the executor invoked
    run_calls,     \* tasks whose run the executor invoked
    returned,      \* tasks whose run returned a Context
    answers,       \* how each invoked task's run ended (collaborator answer)
    report,        \* a VulnReport given to the scorer and the summaries
    outs,          \* what scorer and summaries computed from report
    sbom_data,     \* a CycloneDX document given to _analyze_sbom_structure
    sbom_ctx,      \* the ctx argument of _analyze_sbom_structure
    analysis       \* what the two _analyze_sbom_structure computed

vars == <<pc, repo_source, registry, tasks, index, awaiting, ctx, err, result,
          raised, status_calls, run_calls, returned, answers, report, outs,
          sbom_data, sbom_ctx, analysis>>

pipelineVars == <<pc, repo_source, registry, tasks, index, awaiting, ctx, err,
                  result, raised, status_calls, run_calls, returned, answers>>

scoreVars == <<report, outs>>

sbomVars == <<sbom_data, sbom_ctx, analysis>>

-----------------------------------------------------------------------------
(* Bounds *)

MaxMatches == 3

MaxScanMatches == 2

\* blanks appended to a severity word
MaxPad == 1

\* dependsOn entries in the dependencies array of an SBOM
MaxEdges == 3

\* entries of the dependencies array without dependsOn
MaxLeaves == 1

\* components of an SBOM that has no dependencies array
MaxComponents == 2

\* entries of requires_dist
MaxRequires == 3

\* edges of a graph that bfs_depth is stepped through
MaxBfsEdges == 4

\* components of an SBOM that vulnerabilities are linked to
MaxLinkComponents == 2

\* raw matches that are linked to an SBOM
MaxLinkMatches == 1

-----------------------------------------------------------------------------
(* Character strings *)

UpperChars == <<"A","B","C","D","E","F","G","H","I","J","K","L","M",
                "N","O","P","Q","R","S","T","U","V","W","X","Y","Z">>

LowerChars == <<"a","b","c","d","e","f","g","h","i","j","k","l","m",
                "n","o","p","q","r","s","t","u","v","w","x","y","z">>

UpperToLower ==
    [c \in {UpperChars[i] : i \in 1..26} |->
        LowerChars[CHOOSE i \in 1..26 : UpperChars[i] = c]]

LowerChar(c) == IF c \in DOMAIN UpperToLower THEN UpperToLower[c] ELSE c

\* str.lower()
Lower(s) == [i \in 1..Len(s) |-> LowerChar(s[i])]

\* None, as json.load gives it for null
PyNone == <<"<None>">>

\* "if grype_severity": neither None nor the empty string
Truthy(s) == s # PyNone /\ s # <<>>

\* a key that the dict does not hold (severity is a character sequence,
\* id, name and version are atoms)
KeyAbsent == <<"<absent>">>

AtomAbsent == "<absent>"

\* dict.get(key, default)
Get(v, default) == IF v = KeyAbsent THEN default ELSE v

GetAtom(v, default) == IF v = AtomAbsent THEN default ELSE v

sCritical == <<"c","r","i","t","i","c","a","l">>
sHigh == <<"h","i","g","h">>
sMedium == <<"m","e","d","i","u","m">>
sLow == <<"l","o","w">>
sUnknownLower == <<"u","n","k","n","o","w","n">>
sUnknown == <<"U","n","k","n","o","w","n">>

\* severity strings as Grype writes them, in several casings
GrypeCritical == <<"C","r","i","t","i","c","a","l">>
GrypeHIGH == <<"H","I","G","H">>
GrypeMedium == sMedium
GrypeLow == <<"L","o","w">>
GrypeNegligible == <<"N","e","g","l","i","g","i","b","l","e">>

Levels == {"critical", "high", "medium", "low", "info"}

-----------------------------------------------------------------------------
(* domain/scoring.py *)

\* (mutant) the comparison is case-sensitive
MapGrypeSeverityCaseSensitive(grype_severity) ==
    LET severity_lower == IF Truthy(grype_severity) THEN grype_severity
                          ELSE sUnknownLower
    IN  IF severity_lower = sCritical THEN "critical"
        ELSE IF severity_lower = sHigh THEN "high"
        ELSE IF severity_lower = sMedium THEN "medium"
        ELSE IF severity_lower = sLow THEN "low"
        ELSE "info"

\* _map_grype_severity
MapGrypeSeverity(grype_severity) ==
    LET severity_lower == IF Truthy(grype_severity) THEN Lower(grype_severity)
                          ELSE sUnknownLower
    IN  IF severity_lower = sCritical THEN "critical"
        ELSE IF severity_lower = sHigh THEN "high"
        ELSE IF severity_lower = sMedium THEN "medium"
        ELSE IF severity_lower = sLow THEN "low"
        ELSE "info"

\* (mutant) the key leaves out the artifact
MatchKeyIdOnly(match) ==
    <<GetAtom(match.vulnerability.id, "UNKNOWN"), "unknown", "unknown">>

\* key = (cve_id, package_name, package_version)
MatchKey(match) ==
    <<GetAtom(match.vulnerability.id, "UNKNOWN"),
      GetAtom(match.artifact.name, "unknown"),
      GetAtom(match.artifact.version, "unknown")>>

MatchSeverity(match) ==
    MapGrypeSeverity(Get(match.vulnerability.severity, sUnknown))

ZeroCounts == [l \in Levels |-> 0]

\* (mutant) every raw match is counted, seen_vulns is not consulted
RECURSIVE ScoreLoopNoDedup(_, _, _)
ScoreLoopNoDedup(matches, seen_vulns, severity_counts) ==
    IF matches = <<>> THEN severity_counts
    ELSE ScoreLoopNoDedup(Tail(matches), seen_vulns,
             [severity_counts EXCEPT ![MatchSeverity(Head(matches))] = @ + 1])

\* the loop of compute_risk_score over matches: (seen_vulns, severity_counts)
RECURSIVE ScoreLoop(_, _, _)
ScoreLoop(matches, seen_vulns, severity_counts) ==
    IF matches = <<>> THEN severity_counts
    ELSE LET match == Head(matches)
             key == MatchKey(match)
         IN  IF key \notin seen_vulns
             THEN ScoreLoop(Tail(matches), seen_vulns \cup {key},
                      [severity_counts EXCEPT ![MatchSeverity(match)] = @ + 1])
             ELSE ScoreLoop(Tail(matches), seen_vulns, severity_counts)

\* (mutant) medium weighted 3
severity_weightsMediumThree ==
    [l \in Levels |-> CASE l = "critical" -> 10
                        [] l = "high" -> 5
                        [] l = "medium" -> 3
                        [] l = "low" -> 1
                        [] OTHER -> 0]

severity_weights ==
    [l \in Levels |-> CASE l = "critical" -> 10
                        [] l = "high" -> 5
                        [] l = "medium" -> 2
                        [] l = "low" -> 1
                        [] OTHER -> 0]

WeightedSum(severity_counts) ==
    severity_counts["critical"] * severity_weights["critical"]
    + severity_counts["high"] * severity_weights["high"]
    + severity_counts["medium"] * severity_weights["medium"]
    + severity_counts["low"] * severity_weights["low"]
    + severity_counts["info"] * severity_weights["info"]

\* compute_risk_score(result), as a function of result.ctx.vulns
compute_risk_score(vulns) ==
    IF vulns.present
    THEN WeightedSum(ScoreLoop(vulns.matches, {}, ZeroCounts))
    ELSE 0

-----------------------------------------------------------------------------
(* services/tasks/scan_vulnerabilities.py: deduplication *)

\* _map_grype_severity of the scan task
scan_map_grype_severity(grype_severity) ==
    LET severity_lower == IF Truthy(grype_severity) THEN Lower(grype_severity)
                          ELSE sUnknownLower
    IN  IF severity_lower = sCritical THEN "critical"
        ELSE IF severity_lower = sHigh THEN "high"
        ELSE IF severity_lower = sMedium THEN "medium"
        ELSE IF severity_lower = sLow THEN "low"
        ELSE "info"

\* vuln_groups as a dict in insertion order: a sequence of [key, match_list]
RECURSIVE GroupLoop(_, _)
GroupLoop(matches, vuln_groups) ==
    IF matches = <<>> THEN vuln_groups
    ELSE LET match == Head(matches)
             key == MatchKey(match)
         IN  IF \E i \in 1..Len(vuln_groups) : vuln_groups[i].key = key
             THEN LET i == CHOOSE j \in 1..Len(vuln_groups) :
                                 vuln_groups[j].key = key
                  IN  GroupLoop(Tail(matches),
                                [vuln_groups EXCEPT ![i].match_list =
                                     Append(@, match)])
             ELSE GroupLoop(Tail(matches),
                            Append(vuln_groups,
                                   [key |-> key, match_list |-> <<match>>]))

\* (mutant) the severity of a group is taken from its last match
RECURSIVE GroupSeverityCountsLastMatch(_, _)
GroupSeverityCountsLastMatch(vuln_groups, severity_counts) ==
    IF vuln_groups = <<>> THEN severity_counts
    ELSE LET match_list == Head(vuln_groups).match_list
             match == match_list[Len(match_list)]
         IN  GroupSeverityCountsLastMatch(Tail(vuln_groups),
                 [severity_counts EXCEPT ![MatchSeverity(match)] = @ + 1])

\* severity_counts over the groups, the severity taken from match_list[0]
RECURSIVE GroupSeverityCounts(_, _)
GroupSeverityCounts(vuln_groups, severity_counts) ==
    IF vuln_groups = <<>> THEN severity_counts
    ELSE LET match == Head(vuln_groups).match_list[1]
         IN  GroupSeverityCounts(Tail(vuln_groups),
                 [severity_counts EXCEPT ![MatchSeverity(match)] = @ + 1])

Finding(source, severity) == [source |-> source, severity |-> severity]

\* (mutant) the Findings are emitted critical first, as the detail list is
GrypeFindingsBySeverity(vuln_groups) ==
    LET all == [i \in 1..Len(vuln_groups) |->
                   Finding("grype",
                           MatchSeverity(vuln_groups[i].match_list[1]))]
        At(l) == SelectSeq(all, LAMBDA f : f.severity = l)
    IN  At("critical") \o At("high") \o At("medium") \o At("low")
        \o At("info")

\* one Finding with source "grype" per group, in the groups' order
GrypeFindings(vuln_groups) ==
    [i \in 1..Len(vuln_groups) |->
        Finding("grype", MatchSeverity(vuln_groups[i].match_list[1]))]

\* what ScanVulnerabilities.run derives from vuln_data
ScanSummary(matches) ==
    LET vuln_groups == GroupLoop(matches, <<>>)
    IN  [total_matches |-> Len(matches),
         unique_vulns |-> Len(vuln_groups),
         severity_counts |-> GroupSeverityCounts(vuln_groups, ZeroCounts),
         findings |-> GrypeFindings(vuln_groups)
                      \o <<Finding("scan_vulnerabilities", "info")>>]

(* services/tasks/scan_vulnerabilities.py: linking to SBOM components.     *)
(* A component is [bom_ref, purl, name, version], an artifact              *)
(* [purl, name, version]; a missing key is AtomAbsent.                     *)

\* m[key] = value on a dict
DictSet(m, key, value) ==
    [x \in DOMAIN m \cup {key} |-> IF x = key THEN value ELSE m[x]]

\* _build_sbom_lookup_maps: the loop over components
RECURSIVE BuildLoop(_, _)
BuildLoop(components, maps) ==
    IF components = <<>> THEN maps
    ELSE LET comp == Head(components)
             bom_ref == comp.bom_ref
             purl == comp.purl
             name == comp.name
             version == GetAtom(comp.version, "")
             with_purl ==
                 IF purl # AtomAbsent
                 THEN [maps EXCEPT !.purl_map = DictSet(@, purl, bom_ref)]
                 ELSE maps
             with_name ==
                 IF name # AtomAbsent
                 THEN [with_purl EXCEPT !.name_version_map =
                          DictSet(@, <<name, version>>, bom_ref)]
                 ELSE with_purl
         IN  IF bom_ref = AtomAbsent
             THEN BuildLoop(Tail(components), maps)
             ELSE BuildLoop(Tail(components), with_name)

\* _build_sbom_lookup_maps(sbom_data) -> (purl_map, name_version_map)
build_sbom_lookup_maps(data) ==
    BuildLoop(data.components, [purl_map |-> <<>>, name_version_map |-> <<>>])

\* (mutant) the (name, version) index is consulted before the purl index
find_sbom_componentNameFirst(artifact, purl_map, name_version_map) ==
    LET purl == artifact.purl
        name == artifact.name
        version == GetAtom(artifact.version, "")
    IN  IF name # AtomAbsent /\ <<name, version>> \in DOMAIN name_version_map
        THEN name_version_map[<<name, version>>]
        ELSE IF purl # AtomAbsent /\ purl \in DOMAIN purl_map
        THEN purl_map[purl]
        ELSE "None"

\* _find_sbom_component(artifact, purl_map, name_version_map) -> bom-ref
find_sbom_component(artifact, purl_map, name_version_map) ==
    LET purl == artifact.purl
        name == artifact.name
        version == GetAtom(artifact.version, "")
    IN  IF purl # AtomAbsent /\ purl \in DOMAIN purl_map
        THEN purl_map[purl]
        ELSE IF name # AtomAbsent
                /\ <<name, version>> \in DOMAIN name_version_map
        THEN name_version_map[<<name, version>>]
        ELSE "None"

\* ScanVulnerabilities.run: per group the bom_ref its Finding names, and
\* the Findings appended
ScanLinks(matches, data) ==
    LET maps == build_sbom_lookup_maps(data)
        vuln_groups == GroupLoop(matches, <<>>)
    IN  [bom_refs |->
             [i \in 1..Len(vuln_groups) |->
                 find_sbom_component(vuln_groups[i].match_list[1].artifact,
                                     maps.purl_map, maps.name_version_map)],
         findings |-> ScanSummary(matches).findings]

(* services/reporting.py *)

\* _parse_vulnerabilities -> (severity_counts, unique_vulns, total, unique)
reporting_parse_vulnerabilities(matches) ==
    LET vuln_groups == GroupLoop(matches, <<>>)
    IN  [severity_counts |-> GroupSeverityCounts(vuln_groups, ZeroCounts),
         unique_vulns |->
             [i \in 1..Len(vuln_groups) |->
                 [key |-> MatchKey(vuln_groups[i].match_list[1]),
                  severity |-> MatchSeverity(vuln_groups[i].match_list[1]),
                  component_count |-> Len(vuln_groups[i].match_list)]],
         total_matches |-> Len(matches),
         unique_count |-> Len(vuln_groups)]

(* services/tasks/extract_report_data.py *)

\* _parse_vulnerabilities -> the vulnerability summary of report_data
extract_parse_vulnerabilities(matches) ==
    LET vuln_groups == GroupLoop(matches, <<>>)
        severity_counts == GroupSeverityCounts(vuln_groups, ZeroCounts)
    IN  [total_matches |-> Len(matches),
         unique_vulnerabilities |-> Len(vuln_groups),
         high_severity |-> severity_counts["high"],
         moderate_severity |-> severity_counts["medium"],
         low_severity |-> severity_counts["low"]]

-----------------------------------------------------------------------------
(* services/tasks/generate_sbom.py, services/tasks/extract_report_data.py:    *)
(* _analyze_sbom_structure.  A component is [bom_ref, type], a dependency    *)
(* entry [ref, dependsOn]; type is a character sequence, refs are atoms.     *)

sLibrary == <<"l","i","b","r","a","r","y">>
sApplication == <<"a","p","p","l","i","c","a","t","i","o","n">>
sFramework == <<"f","r","a","m","e","w","o","r","k">>
sFile == <<"f","i","l","e">>

\* {} as sbom_data
NoSbomData == [components |-> <<>>, dependencies |-> <<>>]

\* ctx=None
NoCtx == [none |-> TRUE,
          package |-> [none |-> TRUE, requires_dist |-> PyNone]]

\* a Context whose package is None
NoPackage == [none |-> FALSE,
              package |-> [none |-> TRUE, requires_dist |-> PyNone]]

\* a Context whose package carries requires_dist (a list or None)
WithRequires(requires_dist) ==
    [none |-> FALSE,
     package |-> [none |-> FALSE, requires_dist |-> requires_dist]]

Range(q) == {q[i] : i \in DOMAIN q}

Max(a, b) == IF a >= b THEN a ELSE b

\* iteration over a Python set, in some order
RECURSIVE SetToSeq(_)
SetToSeq(S) ==
    IF S = {} THEN <<>>
    ELSE LET x == CHOOSE y \in S : TRUE
         IN  <<x>> \o SetToSeq(S \ {x})

\* deps_map.get(node, [])
MapGet(deps_map, node) ==
    IF node \in DOMAIN deps_map THEN deps_map[node] ELSE <<>>

\* deps_map[ref].append(child) on a defaultdict(list)
MapAppend(deps_map, ref, child) ==
    [x \in DOMAIN deps_map \cup {ref} |->
        IF x = ref THEN Append(MapGet(deps_map, ref), child)
        ELSE deps_map[x]]

\* (mutant) children.add(child) is left out
RECURSIVE DependsOnLoopNoChildren(_, _, _)
DependsOnLoopNoChildren(dependsOn, ref, g) ==
    IF dependsOn = <<>> THEN g
    ELSE LET child == Head(dependsOn)
         IN  DependsOnLoopNoChildren(Tail(dependsOn), ref,
                 [deps_map |-> MapAppend(g.deps_map, ref, child),
                  all_refs |-> g.all_refs \cup {child},
                  children |-> g.children])

\* the loop over dep.get("dependsOn", [])
RECURSIVE DependsOnLoop(_, _, _)
DependsOnLoop(dependsOn, ref, g) ==
    IF dependsOn = <<>> THEN g
    ELSE LET child == Head(dependsOn)
         IN  DependsOnLoop(Tail(dependsOn), ref,
                 [deps_map |-> MapAppend(g.deps_map, ref, child),
                  all_refs |-> g.all_refs \cup {child},
                  children |-> g.children \cup {child}])

\* (mutant) a ref with an entry of its own is taken out of children
RECURSIVE DependenciesLoopEntryNotChild(_, _)
DependenciesLoopEntryNotChild(dependencies, g) ==
    IF dependencies = <<>> THEN g
    ELSE LET dep == Head(dependencies)
             h == DependsOnLoop(dep.dependsOn, dep.ref,
                      [g EXCEPT !.all_refs = @ \cup {dep.ref}])
         IN  IF dep.ref = AtomAbsent
             THEN DependenciesLoopEntryNotChild(Tail(dependencies), g)
             ELSE DependenciesLoopEntryNotChild(Tail(dependencies),
                      [h EXCEPT !.children = @ \ {dep.ref}])

\* the loop over dependencies: (deps_map, all_refs, children)
RECURSIVE DependenciesLoop(_, _)
DependenciesLoop(dependencies, g) ==
    IF dependencies = <<>> THEN g
    ELSE LET dep == Head(dependencies)
         IN  IF dep.ref = AtomAbsent
             THEN DependenciesLoop(Tail(dependencies), g)
             ELSE DependenciesLoop(Tail(dependencies),
                      DependsOnLoop(dep.dependsOn, dep.ref,
                          [g EXCEPT !.all_refs = @ \cup {dep.ref}]))

\* the loop over deps_map.get(node, []) inside the traversal
RECURSIVE NextLoop(_, _, _)
NextLoop(nxts, depth, b) ==
    IF nxts = <<>> THEN b
    ELSE LET nxt == Head(nxts)
         IN  IF nxt \notin b.seen
             THEN NextLoop(Tail(nxts), depth,
                      [b EXCEPT !.seen = @ \cup {nxt},
                                !.transitive = @ \cup {nxt},
                                !.queue = Append(@, [node |-> nxt,
                                                     depth |-> depth + 1]),
                                !.enqueued = Append(@, nxt)])
             ELSE NextLoop(Tail(nxts), depth, b)

\* one iteration of "while queue": popleft, then the loop over the children
QueueStep(deps_map, b) ==
    LET node == Head(b.queue).node
        depth == Head(b.queue).depth
    IN  NextLoop(MapGet(deps_map, node), depth,
            [b EXCEPT !.queue = Tail(@),
                      !.max_depth_local = Max(@, depth)])

\* while queue: (queue, seen, transitive, max_depth_local); enqueued lists
\* every ref put on the queue
RECURSIVE QueueLoop(_, _)
QueueLoop(deps_map, b) ==
    IF b.queue = <<>> THEN b
    ELSE QueueLoop(deps_map, QueueStep(deps_map, b))

\* (mutant) seen.update(direct) is left out
BfsEnterSeenOnlyStart(deps_map, start) ==
    LET order == SetToSeq(Range(MapGet(deps_map, start)))
    IN  [queue |-> [i \in 1..Len(order) |-> [node |-> order[i], depth |-> 2]],
         seen |-> {start},
         transitive |-> {},
         max_depth_local |-> 1,
         enqueued |-> order]

\* the locals of bfs_depth when it reaches "while queue"
BfsEnter(deps_map, start) ==
    LET order == SetToSeq(Range(MapGet(deps_map, start)))
    IN  [queue |-> [i \in 1..Len(order) |-> [node |-> order[i], depth |-> 2]],
         seen |-> {start} \cup Range(order),
         transitive |-> {},
         max_depth_local |-> 1,
         enqueued |-> order]

\* bfs_depth(start) -> (max_depth_local, direct, transitive)
bfs_depth(deps_map, start) ==
    LET direct == Range(MapGet(deps_map, start))
    IN  IF direct = {}
        THEN [depth |-> 0, direct |-> direct, transitive |-> {},
              enqueued |-> <<>>]
        ELSE LET b == QueueLoop(deps_map, BfsEnter(deps_map, start))
             IN  [depth |-> b.max_depth_local, direct |-> direct,
                  transitive |-> b.transitive, enqueued |-> b.enqueued]

\* for root in roots: (max_depth, direct_deps, transitive_deps)
RECURSIVE RootsLoop(_, _, _)
RootsLoop(deps_map, roots, a) ==
    IF roots = <<>> THEN a
    ELSE LET r == bfs_depth(deps_map, Head(roots))
         IN  RootsLoop(deps_map, Tail(roots),
                 [max_depth |-> Max(a.max_depth, r.depth),
                  direct_deps |-> a.direct_deps \cup r.direct,
                  transitive_deps |-> a.transitive_deps \cup r.transitive,
                  traversals |-> Append(a.traversals, r.enqueued)])

\* components that the no-dependencies branch adds to roots
FallbackRoots(components, children) ==
    {components[i].bom_ref : i \in
        {j \in 1..Len(components) :
            /\ components[j].bom_ref # AtomAbsent
            /\ Lower(Get(components[j].type, <<>>))
                   \in {sLibrary, sApplication, sFramework}
            /\ components[j].bom_ref \notin children}}

\* len([d for d in ctx.package.requires_dist if d]), 0 when ctx, package
\* or requires_dist is missing or empty
DeclaredDepsCount(c) ==
    IF ~c.none /\ ~c.package.none /\ Truthy(c.package.requires_dist)
    THEN Cardinality({i \in 1..Len(c.package.requires_dist) :
                         c.package.requires_dist[i] # ""})
    ELSE 0

\* the locals of _analyze_sbom_structure at its return statement
AnalyzeLocals(data, c) ==
    LET components == data.components
        dependencies == data.dependencies
        g == DependenciesLoop(dependencies,
                 [deps_map |-> <<>>, all_refs |-> {}, children |-> {}])
        no_dependencies == dependencies = <<>> /\ components # <<>>
        roots == (IF g.all_refs # {} THEN g.all_refs \ g.children ELSE {})
                 \cup (IF no_dependencies
                       THEN FallbackRoots(components, g.children) ELSE {})
        declared_deps_count ==
            IF no_dependencies THEN DeclaredDepsCount(c) ELSE 0
        use_metadata_fallback == declared_deps_count > 0
        a == IF use_metadata_fallback
             THEN [max_depth |-> IF declared_deps_count > 0 THEN 1 ELSE 0,
                   direct_deps |-> {}, transitive_deps |-> {},
                   traversals |-> <<>>]
             ELSE RootsLoop(g.deps_map, SetToSeq(roots),
                      [max_depth |-> 0, direct_deps |-> {},
                       transitive_deps |-> {}, traversals |-> <<>>])
    IN  [roots |-> roots,
         children |-> g.children,
         direct_deps |-> a.direct_deps,
         transitive_deps |-> a.transitive_deps,
         traversals |-> a.traversals,
         use_metadata_fallback |-> use_metadata_fallback,
         total_components |-> Len(components),
         max_depth |-> a.max_depth,
         direct_deps_count |->
             IF use_metadata_fallback THEN declared_deps_count
             ELSE Cardinality(a.direct_deps),
         transitive_deps_count |->
             IF use_metadata_fallback THEN 0
             ELSE Cardinality(a.transitive_deps)]

\* generate_sbom._analyze_sbom_structure: the returned dict
generate_analyze_sbom_structure(data, c) ==
    LET l == AnalyzeLocals(data, c)
    IN  [total_components |-> l.total_components,
         max_depth |-> l.max_depth,
         direct_dependencies |-> l.direct_deps_count,
         transitive_dependencies |-> l.transitive_deps_count,
         root_components |-> Cardinality(l.roots)]

\* (mutant) the Context is not looked at
extract_analyze_sbom_structureNoCtx(data, c) ==
    LET l == AnalyzeLocals(data, NoCtx)
    IN  [total_components |-> l.total_components,
         max_depth |-> l.max_depth,
         direct_dependencies |-> l.direct_deps_count,
         transitive_dependencies |-> l.transitive_deps_count]

\* extract_report_data._analyze_sbom_structure: the returned dict
extract_analyze_sbom_structure(data, c) ==
    LET l == AnalyzeLocals(data, c)
    IN  [total_components |-> l.total_components,
         max_depth |-> l.max_depth,
         direct_dependencies |-> l.direct_deps_count,
         transitive_dependencies |-> l.transitive_deps_count]

-----------------------------------------------------------------------------
(* Inputs *)

BoundedSeqs(S, n) == UNION {[1..k -> S] : k \in 0..n}

MatchOf(id, name, version, severity) ==
    [vulnerability |-> [id |-> id, severity |-> severity],
     artifact |-> [name |-> name, version |-> version]]

\* (id, name, version): two ids on one artifact, one id on two artifacts
VulnKeys ==
    {<<"CVE-1", "a", "1">>, <<"CVE-2", "a", "1">>, <<"CVE-2", "b", "2">>}

MatchUniverse ==
    {MatchOf(k[1], k[2], k[3], sev) :
        k \in VulnKeys,
        sev \in {GrypeCritical, GrypeHIGH, GrypeMedium, GrypeLow,
                 GrypeNegligible, KeyAbsent}}

\* what the Grype collaborator may answer inside a pipeline run
ScanUniverse ==
    {MatchOf(k[1], k[2], k[3], sev) :
        k \in {<<"CVE-1", "a", "1">>, <<"CVE-2", "b", "2">>},
        sev \in {GrypeCritical, GrypeLow, KeyAbsent}}

-----------------------------------------------------------------------------
(* services/pipeline.py, services/tasks/__init__.py *)

CHAINS ==
    [s \in {"pypi", "npm", "rust"} |->
        CASE s = "pypi" -> <<"fetch_pypi", "download_pypi", "generate_sbom",
                             "scan_vulnerabilities", "run_analyses",
                             "extract_report_data", "generate_pdf_report">>
          [] s = "npm" -> <<"fetch_npm", "download_npm", "generate_sbom",
                            "scan_vulnerabilities", "run_analyses",
                            "extract_report_data", "generate_pdf_report">>
          [] s = "rust" -> <<"fetch_rust", "download_rust", "generate_sbom",
                             "scan_vulnerabilities", "run_analyses",
                             "extract_report_data", "generate_pdf_report">>]

\* the modules that services/tasks/__init__.py imports (each registers itself)
ImportedTasks ==
    {"download_pypi", "fetch_npm", "fetch_pypi", "generate_pdf_report",
     "generate_sbom", "run_analyses"}

\* task modules that register themselves only once something imports them
OtherTaskModules ==
    {"download_npm", "fetch_rust", "download_rust", "scan_vulnerabilities",
     "extract_report_data"}

FetchTasks == {"fetch_pypi", "fetch_npm", "fetch_rust"}

DownloadTasks == {"download_pypi", "download_npm", "download_rust"}

\* tasks whose run awaits loop.run_in_executor
OffloadingTasks ==
    {"fetch_npm", "fetch_rust", "download_npm", "download_rust",
     "generate_sbom", "scan_vulnerabilities", "generate_pdf_report"}

\* get_task(name) is not None
get_task(name) == name \in registry

NoSbom == [present |-> FALSE, file_path |-> FALSE, empty |-> FALSE]

NoVulns == [present |-> FALSE, matches |-> <<>>]

NoResult == [returned |-> FALSE, score |-> 0, pdf_path |-> FALSE]

NoErr == [raised |-> FALSE, source |-> "None"]

\* Context(package_name, requested_version, repo_source, log_display)
NewContext(requested_version, log_display) ==
    [requested_version |-> requested_version,
     package |-> "None",
     download_info |-> "None",
     sbom |-> NoSbom,
     vulns |-> NoVulns,
     report_data |-> FALSE,
     report_path |-> FALSE,
     findings |-> <<>>,
     log_display |-> log_display]

\* (mutant) findings.insert(0, ...)
AddFindingPrepends(c, source, severity) ==
    [c EXCEPT !.findings = <<Finding(source, severity)>> \o @]

AddFinding(c, source, severity) ==
    [c EXCEPT !.findings = Append(@, Finding(source, severity))]

CurrentTask == tasks[index]

\* (mutant) missing tasks are recorded but the resolved ones still run
ResolveIgnoresMissing ==
    /\ pc = "call"
    /\ IF repo_source = "None" \/ repo_source \notin DOMAIN CHAINS
       THEN /\ pc' = "raised"
            /\ raised' = "ValueError"
            /\ UNCHANGED <<tasks, ctx, index>>
       ELSE LET task_names == CHAINS[repo_source]
                resolved == SelectSeq(task_names, get_task)
                missing_tasks == SelectSeq(task_names,
                                           LAMBDA n : ~get_task(n))
            IN  /\ ctx' = IF missing_tasks # <<>>
                          THEN AddFinding(ctx, "pipeline", "critical")
                          ELSE ctx
                /\ tasks' = resolved
                /\ index' = 1
                /\ pc' = "loop"
                /\ UNCHANGED raised
    /\ UNCHANGED <<repo_source, registry, awaiting, err, result,
                   status_calls, run_calls, returned, answers, scoreVars, sbomVars>>

\* run_pipeline up to the loop: validation of repo_source, chain resolution
Resolve ==
    /\ pc = "call"
    /\ IF repo_source = "None" \/ repo_source \notin DOMAIN CHAINS
       THEN /\ pc' = "raised"
            /\ raised' = "ValueError"
            /\ UNCHANGED <<tasks, ctx, index>>
       ELSE LET task_names == CHAINS[repo_source]
                resolved == SelectSeq(task_names, get_task)
                missing_tasks == SelectSeq(task_names,
                                           LAMBDA n : ~get_task(n))
            IN  IF missing_tasks # <<>>
                THEN /\ ctx' = AddFinding(ctx, "pipeline", "critical")
                     /\ pc' = "raised"
                     /\ raised' = "ValueError"
                     /\ UNCHANGED <<tasks, index>>
                ELSE /\ tasks' = resolved
                     /\ index' = 1
                     /\ pc' = "loop"
                     /\ UNCHANGED <<ctx, raised>>
    /\ UNCHANGED <<repo_source, registry, awaiting, err, result,
                   status_calls, run_calls, returned, answers, scoreVars, sbomVars>>

\* one loop iteration up to the call of task.run(ctx)
TaskBegin ==
    /\ pc = "loop"
    /\ index <= Len(tasks)
    /\ status_calls' = Append(status_calls, CurrentTask)
    /\ run_calls' = Append(run_calls, CurrentTask)
    /\ pc' = "running"
    /\ awaiting' = FALSE
    /\ UNCHANGED <<repo_source, registry, tasks, index, ctx, err, result,
                   raised, returned, answers, scoreVars, sbomVars>>

\* (mutant) the loop does not move on to the next task
TaskCompleteNoAdvance ==
    /\ pc = "task_returned"
    /\ index' = index
    /\ pc' = "loop"
    /\ UNCHANGED <<repo_source, registry, tasks, awaiting, ctx, err, result,
                   raised, status_calls, run_calls, returned, answers,
                   scoreVars, sbomVars>>

\* the rest of the iteration after task.run returned
TaskComplete ==
    /\ pc = "task_returned"
    /\ index' = index + 1
    /\ pc' = "loop"
    /\ UNCHANGED <<repo_source, registry, tasks, awaiting, ctx, err, result,
                   raised, status_calls, run_calls, returned, answers, scoreVars, sbomVars>>

\* (mutant) the handler records the error and the loop goes on
HandleFatalContinues ==
    /\ pc = "fatal"
    /\ ctx' = AddFinding(ctx, IF err.source # "None" THEN err.source
                              ELSE "pipeline", "critical")
    /\ pc' = "task_returned"
    /\ UNCHANGED <<repo_source, registry, tasks, index, awaiting, err, raised,
                   result, status_calls, run_calls, returned, answers,
                   scoreVars, sbomVars>>

\* (mutant) the handler returns the partial result without a Finding
HandleFatalNoFinding ==
    /\ pc = "fatal"
    /\ result' = [returned |-> TRUE,
                  score |-> compute_risk_score(ctx.vulns),
                  pdf_path |-> FALSE]
    /\ pc' = "done"
    /\ UNCHANGED <<repo_source, registry, tasks, index, awaiting, ctx, err,
                   raised, status_calls, run_calls, returned, answers,
                   scoreVars, sbomVars>>

\* (mutant) the handler records the error and raises it again
HandleFatalReraises ==
    /\ pc = "fatal"
    /\ ctx' = AddFinding(ctx, IF err.source # "None" THEN err.source
                              ELSE "pipeline", "critical")
    /\ raised' = "PipelineFatalError"
    /\ pc' = "raised"
    /\ UNCHANGED <<repo_source, registry, tasks, index, awaiting, err, result,
                   status_calls, run_calls, returned, answers, scoreVars, sbomVars>>

\* (mutant) the partial result keeps the score 0 it was created with
HandleFatalScoreZero ==
    /\ pc = "fatal"
    /\ ctx' = AddFinding(ctx, IF err.source # "None" THEN err.source
                              ELSE "pipeline", "critical")
    /\ result' = [returned |-> TRUE, score |-> 0, pdf_path |-> FALSE]
    /\ pc' = "done"
    /\ UNCHANGED <<repo_source, registry, tasks, index, awaiting, err, raised,
                   status_calls, run_calls, returned, answers, scoreVars,
                   sbomVars>>

\* (mutant) the partial result is built on a Context without the SBOM
HandleFatalDropsSbom ==
    /\ pc = "fatal"
    /\ LET source == IF err.source # "None" THEN err.source ELSE "pipeline"
           c == [AddFinding(ctx, source, "critical") EXCEPT !.sbom = NoSbom]
       IN  /\ ctx' = c
           /\ result' = [returned |-> TRUE,
                         score |-> compute_risk_score(c.vulns),
                         pdf_path |-> FALSE]
    /\ pc' = "done"
    /\ UNCHANGED <<repo_source, registry, tasks, index, awaiting, err, raised,
                   status_calls, run_calls, returned, answers, scoreVars,
                   sbomVars>>

\* except PipelineFatalError as e
HandleFatal ==
    /\ pc = "fatal"
    /\ LET source == IF err.source # "None" THEN err.source ELSE "pipeline"
           c == AddFinding(ctx, source, "critical")
       IN  /\ ctx' = c
           /\ result' = [returned |-> TRUE,
                         score |-> compute_risk_score(c.vulns),
                         pdf_path |-> FALSE]
    /\ pc' = "done"
    /\ UNCHANGED <<repo_source, registry, tasks, index, awaiting, err, raised,
                   status_calls, run_calls, returned, answers, scoreVars, sbomVars>>

\* after the loop
PipelineFinish ==
    /\ pc = "loop"
    /\ index > Len(tasks)
    /\ result' = [returned |-> TRUE,
                  score |-> compute_risk_score(ctx.vulns),
                  pdf_path |-> ctx.report_path]
    /\ pc' = "done"
    /\ UNCHANGED <<repo_source, registry, tasks, index, awaiting, ctx, err,
                   raised, status_calls, run_calls, returned, answers, scoreVars, sbomVars>>

-----------------------------------------------------------------------------
(* services/tasks/*.py: the run of each task *)

\* ctx.package.version or ctx.requested_version
HasVersion(c) == c.package = "versioned" \/ c.requested_version

\* (mutant) the download tasks do not look at ctx.package
TaskPreconditionNoPackageCheck(t, c) ==
    CASE t \in DownloadTasks -> HasVersion(c)
      [] t = "generate_sbom" -> c.download_info = "local_path"
      [] t = "scan_vulnerabilities" -> c.sbom.present /\ c.sbom.file_path
      [] t = "generate_pdf_report" -> c.report_data
      [] OTHER -> TRUE

\* the check at the head of run that raises PipelineFatalError when it fails
TaskPrecondition(t, c) ==
    CASE t \in DownloadTasks -> c.package # "None" /\ HasVersion(c)
      [] t = "generate_sbom" -> c.download_info = "local_path"
      [] t = "scan_vulnerabilities" -> c.sbom.present /\ c.sbom.file_path
      [] t = "generate_pdf_report" -> c.report_data
      [] OTHER -> TRUE

taskFrame == <<repo_source, registry, tasks, index, result, status_calls,
               run_calls, scoreVars, sbomVars>>

\* return ctx
TaskReturns(c, answer) ==
    /\ ctx' = c
    /\ answers' = Append(answers, answer)
    /\ pc' = "task_returned"
    /\ returned' = Append(returned, CurrentTask)
    /\ awaiting' = FALSE
    /\ UNCHANGED <<err, raised, taskFrame>>

\* raise PipelineFatalError(message, source)
TaskRaisesFatal(c, source, answer) ==
    /\ ctx' = c
    /\ answers' = Append(answers, answer)
    /\ err' = [raised |-> TRUE, source |-> source]
    /\ pc' = "fatal"
    /\ awaiting' = FALSE
    /\ UNCHANGED <<returned, raised, taskFrame>>

\* an exception that is not a PipelineFatalError leaves run and run_pipeline
TaskRaisesOther(c, answer) ==
    /\ ctx' = c
    /\ answers' = Append(answers, answer)
    /\ raised' = "Exception"
    /\ pc' = "raised"
    /\ awaiting' = FALSE
    /\ UNCHANGED <<returned, err, taskFrame>>

\* await loop.run_in_executor(...): the task is suspended, the loop is free
AwaitExecutor ==
    /\ pc = "running"
    /\ ~awaiting
    /\ CurrentTask \in OffloadingTasks
    /\ TaskPrecondition(CurrentTask, ctx)
    /\ awaiting' = TRUE
    /\ UNCHANGED <<pc, ctx, err, raised, returned, answers, taskFrame>>

\* the task has reached the answer of its collaborator
AtCollaborator(t) ==
    /\ pc = "running"
    /\ CurrentTask = t
    /\ TaskPrecondition(t, ctx)
    /\ (t \in OffloadingTasks => awaiting)

\* (mutant) every registry error is fatal
FetchRunEveryErrorFatal(t) ==
    /\ t \in FetchTasks
    /\ AtCollaborator(t)
    /\ \E outcome \in {"ok", "not_found", "network", "registry_error"} :
        CASE outcome = "ok" ->
               \E package \in {"versioned", "unversioned"} :
                   TaskReturns(AddFinding([ctx EXCEPT !.package = package],
                                          t, "info"), outcome)
          [] OTHER ->
               TaskRaisesFatal(AddFinding(ctx, t, "critical"), t, outcome)

\* FetchPyPi.run, FetchNpm.run, FetchRust.run
FetchRun(t) ==
    /\ t \in FetchTasks
    /\ AtCollaborator(t)
    /\ \E outcome \in {"ok", "not_found", "network", "registry_error"} :
        CASE outcome = "ok" ->
               \E package \in {"versioned", "unversioned"} :
                   TaskReturns(AddFinding([ctx EXCEPT !.package = package],
                                          t, "info"), outcome)
          [] outcome = "not_found" ->
               TaskRaisesFatal(AddFinding(ctx, t, "critical"), t, outcome)
          [] OTHER ->
               TaskReturns(AddFinding(ctx, t, "warning"), outcome)

\* DownloadPyPi.run, DownloadNpm.run, DownloadRust.run
DownloadRun(t) ==
    /\ t \in DownloadTasks
    /\ pc = "running"
    /\ CurrentTask = t
    /\ IF ~TaskPrecondition(t, ctx)
       THEN ~awaiting /\ TaskRaisesFatal(ctx, t, "precondition")
       ELSE
          /\ AtCollaborator(t)
          /\ \E outcome \in {"ok", "not_found", "network", "registry_error",
                             "request_error", "os_error"} :
              CASE outcome = "ok" ->
                     \E lockfile_error \in
                            IF t = "download_rust" THEN BOOLEAN ELSE {FALSE} :
                         LET c1 == IF lockfile_error
                                   THEN AddFinding(ctx, t, "warning") ELSE ctx
                             c2 == [c1 EXCEPT !.download_info = "local_path"]
                         IN  TaskReturns(AddFinding(c2, t, "info"),
                                         IF lockfile_error
                                         THEN "ok_lockfile_error"
                                         ELSE outcome)
                [] outcome = "request_error" ->
                     TaskRaisesFatal(
                         AddFinding(
                             [ctx EXCEPT !.download_info = "no_local_path"],
                             t, "critical"), t, outcome)
                [] outcome = "os_error" ->
                     TaskRaisesOther(
                         [ctx EXCEPT !.download_info = "no_local_path"],
                         outcome)
                [] OTHER ->
                     TaskRaisesFatal(AddFinding(ctx, t, "critical"), t,
                                     outcome)

\* GenerateSbom.run
GenerateSbomRun ==
    LET t == "generate_sbom"
    IN  /\ pc = "running"
        /\ CurrentTask = t
        /\ IF ~TaskPrecondition(t, ctx)
           THEN ~awaiting /\ TaskRaisesFatal(ctx, t, "precondition")
           ELSE
           /\ AtCollaborator(t)
           /\ \E outcome \in {"ok", "syft_not_found", "syft_error",
                              "os_error"} :
               CASE outcome = "ok" ->
                      \E saved \in BOOLEAN, empty \in BOOLEAN :
                          LET c1 == [ctx EXCEPT !.sbom =
                                        [present |-> TRUE,
                                         file_path |-> saved,
                                         empty |-> empty]]
                              c2 == IF c1.log_display /\ empty
                                    THEN AddFinding(c1, t, "warning") ELSE c1
                          IN  TaskReturns(AddFinding(c2, t, "info"), outcome)
                 [] outcome = "os_error" ->
                      TaskRaisesOther(ctx, outcome)
                 [] OTHER ->
                      TaskRaisesFatal(AddFinding(ctx, t, "critical"), t,
                                      outcome)

\* (mutant) a failed scan is fatal
ScanVulnerabilitiesRunErrorFatal ==
    LET t == "scan_vulnerabilities"
        empty_report == [present |-> TRUE, matches |-> <<>>]
    IN  /\ pc = "running"
        /\ CurrentTask = t
        /\ IF ~TaskPrecondition(t, ctx)
           THEN ~awaiting /\ TaskRaisesFatal(ctx, t, "precondition")
           ELSE
           /\ AtCollaborator(t)
           /\ \E outcome \in {"ok", "grype_not_found", "grype_error"} :
               CASE outcome = "ok" ->
                      \E matches \in BoundedSeqs(ScanUniverse,
                                                 MaxScanMatches) :
                          TaskReturns(
                              [ctx EXCEPT
                                  !.vulns = [present |-> TRUE,
                                             matches |-> matches],
                                  !.findings =
                                      @ \o ScanSummary(matches).findings],
                              outcome)
                 [] outcome = "grype_not_found" ->
                      TaskReturns(
                          [AddFinding(ctx, t, "critical")
                              EXCEPT !.vulns = empty_report], outcome)
                 [] OTHER ->
                      TaskRaisesFatal(AddFinding(ctx, t, "warning"), t,
                                      outcome)

\* ScanVulnerabilities.run
ScanVulnerabilitiesRun ==
    LET t == "scan_vulnerabilities"
        empty_report == [present |-> TRUE, matches |-> <<>>]
    IN  /\ pc = "running"
        /\ CurrentTask = t
        /\ IF ~TaskPrecondition(t, ctx)
           THEN ~awaiting /\ TaskRaisesFatal(ctx, t, "precondition")
           ELSE
           /\ AtCollaborator(t)
           /\ \E outcome \in {"ok", "grype_not_found", "grype_error"} :
               CASE outcome = "ok" ->
                      \E matches \in BoundedSeqs(ScanUniverse,
                                                 MaxScanMatches) :
                          TaskReturns(
                              [ctx EXCEPT
                                  !.vulns = [present |-> TRUE,
                                             matches |-> matches],
                                  !.findings =
                                      @ \o ScanSummary(matches).findings],
                              outcome)
                 [] outcome = "grype_not_found" ->
                      TaskReturns(
                          [AddFinding(ctx, t, "critical")
                              EXCEPT !.vulns = empty_report], outcome)
                 [] OTHER ->
                      TaskReturns(
                          [AddFinding(ctx, t, "warning")
                              EXCEPT !.vulns = empty_report], outcome)

\* analyzers.all_analyzers()
all_analyzers == <<"metadata">>

\* RunAnalyses.run: every analyzer yields its findings, which are appended
RunAnalysesRun ==
    /\ AtCollaborator("run_analyses")
    /\ TaskReturns(
           [ctx EXCEPT !.findings =
               @ \o [i \in 1..Len(all_analyzers) |->
                        Finding(all_analyzers[i], "info")]], "ok")

\* ExtractReportData.run
ExtractReportDataRun ==
    /\ AtCollaborator("extract_report_data")
    /\ TaskReturns(AddFinding([ctx EXCEPT !.report_data = TRUE],
                              "extract_report_data", "info"), "ok")

\* GeneratePdfReport.run
GeneratePdfReportRun ==
    LET t == "generate_pdf_report"
    IN  /\ pc = "running"
        /\ CurrentTask = t
        /\ IF ~TaskPrecondition(t, ctx)
           THEN ~awaiting /\ TaskRaisesFatal(ctx, t, "precondition")
           ELSE IF ~awaiting
           THEN \* get_artifacts_dir() before the executor call may raise
                TaskRaisesOther(ctx, "os_error")
           ELSE \E outcome \in {"ok", "render_error"} :
                   CASE outcome = "ok" ->
                          TaskReturns(
                              AddFinding([ctx EXCEPT !.report_path = TRUE],
                                         t, "info"), outcome)
                     [] OTHER ->
                          TaskRaisesFatal(ctx, t, outcome)

-----------------------------------------------------------------------------
(* The pipeline as a state machine *)

Init ==
    /\ pc = "call"
    /\ repo_source \in {"None", "pypi", "npm", "rust", "maven"}
    /\ registry \in {ImportedTasks \cup m : m \in SUBSET OtherTaskModules}
    /\ tasks = <<>>
    /\ index = 0
    /\ awaiting = FALSE
    /\ ctx \in {NewContext(rv, ld) : rv \in BOOLEAN, ld \in BOOLEAN}
    /\ err = NoErr
    /\ result = NoResult
    /\ raised = "None"
    /\ status_calls = <<>>
    /\ run_calls = <<>>
    /\ returned = <<>>
    /\ answers = <<>>
    /\ report = NoVulns
    /\ outs = [computed |-> FALSE]
    /\ sbom_data = NoSbomData
    /\ sbom_ctx = NoCtx
    /\ analysis = [computed |-> FALSE]

Next ==
    \/ Resolve
    \/ TaskBegin
    \/ AwaitExecutor
    \/ \E t \in FetchTasks : FetchRun(t)
    \/ \E t \in DownloadTasks : DownloadRun(t)
    \/ GenerateSbomRun
    \/ ScanVulnerabilitiesRun
    \/ RunAnalysesRun
    \/ ExtractReportDataRun
    \/ GeneratePdfReportRun
    \/ TaskComplete
    \/ HandleFatal
    \/ PipelineFinish

Spec == Init /\ [][Next]_vars

(* The pipeline, and the executor's loop entered for one task with a       *)
(* Context of any shape, as when a task is called on its own               *)

\* tasks whose run starts with a check of what earlier tasks left
GuardedTasks ==
    DownloadTasks \cup {"generate_sbom", "scan_vulnerabilities",
                        "generate_pdf_report"}

AnyContext ==
    [requested_version : BOOLEAN,
     package : {"None", "versioned", "unversioned"},
     download_info : {"None", "no_local_path", "local_path"},
     sbom : {NoSbom} \cup [present : {TRUE}, file_path : BOOLEAN,
                            empty : BOOLEAN],
     vulns : {NoVulns},
     report_data : BOOLEAN,
     report_path : {FALSE},
     findings : {<<>>},
     log_display : BOOLEAN]

InitCall ==
    /\ pc = "running"
    /\ repo_source = "None"
    /\ registry = ImportedTasks \cup OtherTaskModules
    /\ \E t \in GuardedTasks :
          /\ tasks = <<t>>
          /\ status_calls = <<t>>
          /\ run_calls = <<t>>
    /\ index = 1
    /\ awaiting = FALSE
    /\ ctx \in AnyContext
    /\ err = NoErr
    /\ result = NoResult
    /\ raised = "None"
    /\ returned = <<>>
    /\ answers = <<>>
    /\ report = NoVulns
    /\ outs = [computed |-> FALSE]
    /\ sbom_data = NoSbomData
    /\ sbom_ctx = NoCtx
    /\ analysis = [computed |-> FALSE]

SpecCalls == (Init \/ InitCall) /\ [][Next]_vars

-----------------------------------------------------------------------------
(* The scorer and the summaries applied to a growing vulnerability report *)

\* what the scorer, the scan task and the two report summaries compute
Outputs(v) ==
    [score |-> compute_risk_score(v),
     scan |-> ScanSummary(v.matches),
     reporting |-> reporting_parse_vulnerabilities(v.matches),
     extract |-> extract_parse_vulnerabilities(v.matches)]

InitScore ==
    /\ pc = "score"
    /\ repo_source = "None"
    /\ registry = ImportedTasks
    /\ tasks = <<>>
    /\ index = 0
    /\ awaiting = FALSE
    /\ ctx = NewContext(FALSE, FALSE)
    /\ err = NoErr
    /\ result = NoResult
    /\ raised = "None"
    /\ status_calls = <<>>
    /\ run_calls = <<>>
    /\ returned = <<>>
    /\ answers = <<>>
    /\ report = NoVulns
    /\ outs = Outputs(NoVulns)
    /\ sbom_data = NoSbomData
    /\ sbom_ctx = NoCtx
    /\ analysis = [computed |-> FALSE]

\* ctx.vulns = VulnReport(raw={"matches": []})
StoreVulnReport ==
    /\ ~report.present
    /\ report' = [present |-> TRUE, matches |-> <<>>]
    /\ outs' = Outputs(report')
    /\ UNCHANGED <<pipelineVars, sbomVars>>

\* the scanner reports one more raw match; everything is computed again
AppendRawMatch ==
    /\ report.present
    /\ Len(report.matches) < MaxMatches
    /\ \E m \in MatchUniverse :
          report' = [report EXCEPT !.matches = Append(@, m)]
    /\ outs' = Outputs(report')
    /\ UNCHANGED <<pipelineVars, sbomVars>>

NextScore ==
    \/ StoreVulnReport
    \/ AppendRawMatch

SpecScore == InitScore /\ [][NextScore]_vars

-----------------------------------------------------------------------------
(* The severity mapping applied to one raw match *)

UpperOf ==
    [c \in {LowerChars[i] : i \in 1..26} |->
        UpperChars[CHOOSE i \in 1..26 : LowerChars[i] = c]]

\* every casing of a lower-case word
Casings(w) ==
    {[i \in 1..Len(w) |-> IF i \in U THEN UpperOf[w[i]] ELSE w[i]] :
        U \in SUBSET (1..Len(w))}

RECURSIVE Padded(_, _)
Padded(s, n) == IF n = 0 THEN s ELSE Append(Padded(s, n - 1), " ")

SeverityWords == {sCritical, sHigh, sMedium, sLow, sUnknownLower}

\* severity values a match may carry: the words in every casing, with
\* trailing blanks, without their first letter, "", null, "Negligible"
SeverityInputs ==
    LET cased == UNION {Casings(w) : w \in SeverityWords}
    IN  {Padded(s, n) : s \in cased, n \in 0..MaxPad}
        \cup {Tail(s) : s \in cased}
        \cup {<<>>, PyNone, KeyAbsent, GrypeNegligible}

InitSeverity ==
    /\ pc = "map"
    /\ repo_source = "None"
    /\ registry = ImportedTasks
    /\ tasks = <<>>
    /\ index = 0
    /\ awaiting = FALSE
    /\ ctx = NewContext(FALSE, FALSE)
    /\ err = NoErr
    /\ result = NoResult
    /\ raised = "None"
    /\ status_calls = <<>>
    /\ run_calls = <<>>
    /\ returned = <<>>
    /\ answers = <<>>
    /\ report \in {[present |-> TRUE,
                    matches |-> <<MatchOf("CVE-1", "a", "1", sev)>>] :
                      sev \in SeverityInputs}
    /\ outs = [computed |-> FALSE]
    /\ sbom_data = NoSbomData
    /\ sbom_ctx = NoCtx
    /\ analysis = [computed |-> FALSE]

\* grype_severity = vulnerability.get("severity", "Unknown");
\* severity = _map_grype_severity(grype_severity), in scoring and in the scan
MapSeverity ==
    /\ pc = "map"
    /\ pc' = "mapped"
    /\ LET grype_severity ==
               Get(report.matches[1].vulnerability.severity, sUnknown)
       IN  outs' = [grype_severity |-> grype_severity,
                    scoring |-> MapGrypeSeverity(grype_severity),
                    scan |-> scan_map_grype_severity(grype_severity)]
    /\ UNCHANGED <<repo_source, registry, tasks, index, awaiting, ctx, err,
                   result, raised, status_calls, run_calls, returned, answers,
                   report, sbomVars>>

NextSeverity == MapSeverity

SpecSeverity == InitSeverity /\ [][NextSeverity]_vars

-----------------------------------------------------------------------------
(* _analyze_sbom_structure applied to a growing dependency graph *)

Refs == {"A", "B", "C", "D"}

\* what both analyzers return, and the locals they return it from
Analyses(data, c) ==
    [gen |-> generate_analyze_sbom_structure(data, c),
     ext |-> extract_analyze_sbom_structure(data, c),
     locals |-> AnalyzeLocals(data, c)]

pureFrame == <<repo_source, registry, tasks, index, awaiting, ctx, err,
               result, raised, status_calls, run_calls, returned, answers,
               scoreVars>>

InitPure ==
    /\ repo_source = "None"
    /\ registry = ImportedTasks
    /\ tasks = <<>>
    /\ index = 0
    /\ awaiting = FALSE
    /\ ctx = NewContext(FALSE, FALSE)
    /\ err = NoErr
    /\ result = NoResult
    /\ raised = "None"
    /\ status_calls = <<>>
    /\ run_calls = <<>>
    /\ returned = <<>>
    /\ answers = <<>>
    /\ report = NoVulns
    /\ outs = [computed |-> FALSE]

\* the document comes with or without a component list and declared
\* dependencies; its dependencies array is still empty
InitSbom ==
    /\ InitPure
    /\ pc = "sbom"
    /\ \E with \in BOOLEAN :
          /\ sbom_data =
                 [components |->
                      IF with THEN <<[bom_ref |-> "A", type |-> sLibrary]>>
                      ELSE <<>>,
                  dependencies |-> <<>>]
          /\ sbom_ctx = IF with THEN WithRequires(<<"dep">>) ELSE NoCtx
    /\ analysis = Analyses(sbom_data, sbom_ctx)

EdgeCount(dependencies) ==
    LET RECURSIVE Sum(_)
        Sum(q) == IF q = <<>> THEN 0
                  ELSE Len(Head(q).dependsOn) + Sum(Tail(q))
    IN  Sum(dependencies)

LeafCount(dependencies) ==
    Cardinality({i \in 1..Len(dependencies) :
                    dependencies[i].dependsOn = <<>>})

\* the arrays are written in the order A, B, C, D, entries without "ref" last
RefRank(r) ==
    CASE r = "A" -> 1
      [] r = "B" -> 2
      [] r = "C" -> 3
      [] r = "D" -> 4
      [] OTHER -> 5

\* the array of refs with child put at its place
WithChild(dependsOn, child) ==
    LET k == Cardinality({i \in 1..Len(dependsOn) :
                             RefRank(dependsOn[i]) < RefRank(child)})
    IN  SubSeq(dependsOn, 1, k) \o <<child>>
        \o SubSeq(dependsOn, k + 1, Len(dependsOn))

\* the dependencies array with one more entry put at its place
WithEntry(dependencies, entry) ==
    LET k == Cardinality({i \in 1..Len(dependencies) :
                             RefRank(dependencies[i].ref) < RefRank(entry.ref)})
    IN  SubSeq(dependencies, 1, k) \o <<entry>>
        \o SubSeq(dependencies, k + 1, Len(dependencies))

\* one more {"ref": ref, "dependsOn": []}; ref may be missing
AddDependency ==
    /\ pc = "sbom"
    /\ LeafCount(sbom_data.dependencies) < MaxLeaves
    /\ \E ref \in Refs \cup {AtomAbsent} :
          /\ \A i \in 1..Len(sbom_data.dependencies) :
                 sbom_data.dependencies[i].ref # ref
          /\ sbom_data' = [sbom_data EXCEPT !.dependencies =
                              WithEntry(@, [ref |-> ref, dependsOn |-> <<>>])]
    /\ analysis' = Analyses(sbom_data', sbom_ctx)
    /\ UNCHANGED <<pc, sbom_ctx, pureFrame>>

\* one more child in the dependsOn of ref's entry (a new entry when ref
\* has none); the entry may be one without "ref"
AddDependsOn ==
    /\ pc = "sbom"
    /\ EdgeCount(sbom_data.dependencies) < MaxEdges
    /\ \E ref \in Refs \cup {AtomAbsent}, child \in Refs :
          LET deps == sbom_data.dependencies
              at == {i \in 1..Len(deps) : deps[i].ref = ref}
          IN  /\ \A i \in at : child \notin Range(deps[i].dependsOn)
              /\ sbom_data' =
                     [sbom_data EXCEPT !.dependencies =
                         IF at = {}
                         THEN WithEntry(deps, [ref |-> ref,
                                               dependsOn |-> <<child>>])
                         ELSE [deps EXCEPT
                                  ![CHOOSE i \in at : TRUE].dependsOn =
                                      WithChild(@, child)]]
    /\ analysis' = Analyses(sbom_data', sbom_ctx)
    /\ UNCHANGED <<pc, sbom_ctx, pureFrame>>

NextSbom ==
    \/ AddDependency
    \/ AddDependsOn

SpecSbom == InitSbom /\ [][NextSbom]_vars

(* bfs_depth run step by step from a root of a dependency graph *)

\* deps_map as _analyze_sbom_structure builds it from the dependencies array
DepsMapOf(data) ==
    DependenciesLoop(data.dependencies,
        [deps_map |-> <<>>, all_refs |-> {}, children |-> {}]).deps_map

bfsFrame == <<repo_source, registry, tasks, index, awaiting, ctx, err,
              result, raised, status_calls, run_calls, returned, answers,
              report, sbomVars>>

\* a document with an empty dependencies array and no components
InitBfs ==
    /\ InitPure
    /\ pc = "sbom"
    /\ sbom_data = NoSbomData
    /\ sbom_ctx = NoCtx
    /\ analysis = [computed |-> FALSE]

\* one more child in the dependsOn of ref's entry (a new entry when ref
\* has none)
AddEdge ==
    /\ pc = "sbom"
    /\ EdgeCount(sbom_data.dependencies) < MaxBfsEdges
    /\ \E ref \in Refs, child \in Refs :
          LET deps == sbom_data.dependencies
              at == {i \in 1..Len(deps) : deps[i].ref = ref}
          IN  /\ \A i \in at : child \notin Range(deps[i].dependsOn)
              /\ sbom_data' =
                     [sbom_data EXCEPT !.dependencies =
                         IF at = {}
                         THEN WithEntry(deps, [ref |-> ref,
                                               dependsOn |-> <<child>>])
                         ELSE [deps EXCEPT
                                  ![CHOOSE i \in at : TRUE].dependsOn =
                                      WithChild(@, child)]]
    /\ UNCHANGED <<pc, sbom_ctx, analysis, pureFrame>>

\* for root in roots: bfs_depth(root) is entered; without direct children
\* it returns at once
BfsCall ==
    /\ pc = "sbom"
    /\ \E root \in AnalyzeLocals(sbom_data, sbom_ctx).roots :
          LET deps_map == DepsMapOf(sbom_data)
              direct == Range(MapGet(deps_map, root))
          IN  IF direct = {}
              THEN /\ pc' = "bfs_done"
                   /\ outs' = [deps_map |-> deps_map, start |-> root,
                               direct |-> direct,
                               b |-> [queue |-> <<>>, seen |-> {},
                                      transitive |-> {},
                                      max_depth_local |-> 0,
                                      enqueued |-> <<>>]]
              ELSE /\ pc' = "bfs_loop"
                   /\ outs' = [deps_map |-> deps_map, start |-> root,
                               direct |-> direct,
                               b |-> BfsEnter(deps_map, root)]
    /\ UNCHANGED bfsFrame

\* one iteration of the while loop
BfsIterate ==
    /\ pc = "bfs_loop"
    /\ outs.b.queue # <<>>
    /\ outs' = [outs EXCEPT !.b = QueueStep(outs.deps_map, @)]
    /\ UNCHANGED <<pc, bfsFrame>>

\* the queue is empty: return max_depth_local, direct, transitive
BfsReturn ==
    /\ pc = "bfs_loop"
    /\ outs.b.queue = <<>>
    /\ pc' = "bfs_done"
    /\ UNCHANGED <<outs, bfsFrame>>

NextBfs ==
    \/ AddEdge
    \/ BfsCall
    \/ BfsIterate
    \/ BfsReturn

\* the function, once called, keeps running
SpecBfs ==
    InitBfs /\ [][NextBfs]_vars /\ WF_vars(BfsIterate) /\ WF_vars(BfsReturn)

(* _analyze_sbom_structure applied to an SBOM without dependencies *)

ComponentTypes ==
    {sLibrary, <<"A","p","p","l","i","c","a","t","i","o","n">>, sFramework,
     sFile, KeyAbsent}

InitComponents ==
    /\ InitPure
    /\ pc = "components"
    /\ sbom_data = NoSbomData
    /\ sbom_ctx \in {NoCtx, NoPackage, WithRequires(PyNone),
                      WithRequires(<<>>)}
    /\ analysis = Analyses(sbom_data, sbom_ctx)

\* one more component, with or without bom-ref and type
AddComponent ==
    /\ pc = "components"
    /\ Len(sbom_data.components) < MaxComponents
    /\ \E bom_ref \in {"X", "Y", AtomAbsent}, type \in ComponentTypes :
          sbom_data' = [sbom_data EXCEPT !.components =
                           Append(@, [bom_ref |-> bom_ref, type |-> type])]
    /\ analysis' = Analyses(sbom_data', sbom_ctx)
    /\ UNCHANGED <<pc, sbom_ctx, pureFrame>>

\* one more entry of ctx.package.requires_dist, possibly the empty string
AddRequirement ==
    /\ pc = "components"
    /\ ~sbom_ctx.none
    /\ ~sbom_ctx.package.none
    /\ sbom_ctx.package.requires_dist # PyNone
    /\ Len(sbom_ctx.package.requires_dist) < MaxRequires
    /\ \E d \in {"", "dep"} :
          sbom_ctx' = WithRequires(Append(sbom_ctx.package.requires_dist, d))
    /\ analysis' = Analyses(sbom_data, sbom_ctx')
    /\ UNCHANGED <<pc, sbom_data, pureFrame>>

NextComponents ==
    \/ AddComponent
    \/ AddRequirement

SpecComponents == InitComponents /\ [][NextComponents]_vars

(* Both analyzers applied to every SBOM and Context of the two families *)

NextAnalyzers ==
    \/ NextSbom
    \/ NextComponents

SpecAnalyzers ==
    (InitSbom \/ InitComponents) /\ [][NextAnalyzers]_vars

(* The scan task's linking applied to a growing SBOM and match list *)

execFrame == <<repo_source, registry, tasks, index, awaiting, ctx, err,
               result, raised, status_calls, run_calls, returned, answers>>

LinkComponents ==
    [bom_ref : {"X", "Y", AtomAbsent}, purl : {"p", AtomAbsent},
     name : {"a", AtomAbsent}, version : {"1", AtomAbsent}]

LinkMatches ==
    [vulnerability : [id : {"CVE-1"}, severity : {GrypeHIGH}],
     artifact : [purl : {"p", "q", AtomAbsent}, name : {"a", AtomAbsent},
                 version : {"1", AtomAbsent}]]

InitLink ==
    /\ InitPure
    /\ pc = "link"
    /\ sbom_data = NoSbomData
    /\ sbom_ctx = NoCtx
    /\ analysis = [computed |-> FALSE]

\* the SBOM lists one more component
AddSbomComponent ==
    /\ pc = "link"
    /\ Len(sbom_data.components) < MaxLinkComponents
    /\ \E comp \in LinkComponents :
          sbom_data' = [sbom_data EXCEPT !.components = Append(@, comp)]
    /\ outs' = IF report.present THEN ScanLinks(report.matches, sbom_data')
               ELSE outs
    /\ UNCHANGED <<pc, report, sbom_ctx, analysis, execFrame>>

\* the scanner reports one more raw match
AppendLinkMatch ==
    /\ pc = "link"
    /\ Len(report.matches) < MaxLinkMatches
    /\ \E m \in LinkMatches :
          report' = [present |-> TRUE, matches |-> Append(report.matches, m)]
    /\ outs' = ScanLinks(report'.matches, sbom_data)
    /\ UNCHANGED <<pc, sbomVars, execFrame>>

NextLink ==
    \/ AddSbomComponent
    \/ AppendLinkMatch

SpecLink == InitLink /\ [][NextLink]_vars

-----------------------------------------------------------------------------
(* Properties of the scorer and of deduplication *)

\* the (vulnerability id, artifact name, artifact version) of a raw match
KeyTriple(m) == <<m.vulnerability.id, m.artifact.name, m.artifact.version>>

KeysOf(matches) == {KeyTriple(matches[i]) : i \in 1..Len(matches)}

\* the first raw match that carries key k
FirstWithKey(matches, k) ==
    matches[CHOOSE i \in 1..Len(matches) :
                /\ KeyTriple(matches[i]) = k
                /\ \A j \in 1..(i - 1) : KeyTriple(matches[j]) # k]

\* number of distinct keys whose mapped severity is level
UniqueAtLevel(matches, level) ==
    Cardinality({k \in KeysOf(matches) :
                    MatchSeverity(FirstWithKey(matches, k)) = level})

\* C8: the risk score is 10*critical + 5*high + 2*medium + 1*low over the
\* deduplicated keys; info adds nothing; no report or no match scores 0.
C8_ScoreIsWeightedSum ==
    /\ outs.score = 10 * UniqueAtLevel(report.matches, "critical")
                    + 5 * UniqueAtLevel(report.matches, "high")
                    + 2 * UniqueAtLevel(report.matches, "medium")
                    + UniqueAtLevel(report.matches, "low")
    /\ (~report.present \/ report.matches = <<>>) => outs.score = 0

\* three raw matches, one key repeated, an info-level key: score 5
C8_Witness ==
    /\ Len(report.matches) = 3
    /\ Cardinality(KeysOf(report.matches)) = 2
    /\ UniqueAtLevel(report.matches, "high") = 1
    /\ UniqueAtLevel(report.matches, "info") = 1
    /\ outs.score = 5

\* C9: total_matches is the number of raw matches and unique_vulnerabilities
\* the number of distinct (id, name, version) keys, in the scan task and in
\* both _parse_vulnerabilities.
C9_TotalAndUnique ==
    report.present =>
        /\ outs.scan.total_matches = Len(report.matches)
        /\ outs.scan.unique_vulns = Cardinality(KeysOf(report.matches))
        /\ outs.reporting.total_matches = Len(report.matches)
        /\ outs.reporting.unique_count = Cardinality(KeysOf(report.matches))
        /\ outs.extract.total_matches = Len(report.matches)
        /\ outs.extract.unique_vulnerabilities
               = Cardinality(KeysOf(report.matches))

\* k = 3 raw matches share one key: total 3, unique 1
C9_Witness ==
    /\ Len(report.matches) = 3
    /\ Cardinality(KeysOf(report.matches)) = 1
    /\ outs.scan.total_matches = 3
    /\ outs.scan.unique_vulns = 1

Scenario1 ==
    <<MatchOf("CVE-1", "a", "1", GrypeCritical),
      MatchOf("CVE-1", "a", "1", GrypeCritical),
      MatchOf("CVE-2", "b", "2", GrypeLow)>>

\* the step appends a raw match whose key the report already holds
AppendsDuplicate ==
    /\ report.present
    /\ report'.present
    /\ Len(report'.matches) = Len(report.matches) + 1
    /\ SubSeq(report'.matches, 1, Len(report.matches)) = report.matches
    /\ KeyTriple(report'.matches[Len(report'.matches)])
           \in KeysOf(report.matches)

\* C10: appending a raw match whose key already occurs leaves the score,
\* unique_vulnerabilities and the per-severity counts unchanged; scenario 1
\* scores 11.
C10_DuplicateChangesNothing ==
    /\ [](report.matches = Scenario1 => outs.score = 11)
    /\ [][AppendsDuplicate =>
            /\ outs'.score = outs.score
            /\ outs'.scan.unique_vulns = outs.scan.unique_vulns
            /\ outs'.scan.severity_counts = outs.scan.severity_counts
            /\ outs'.reporting.severity_counts
                   = outs.reporting.severity_counts]_vars

C10_Witness ==
    /\ report.matches = Scenario1
    /\ outs.score = 11
    /\ outs.scan.unique_vulns = 2

\* s is a string that equals the lower-case word w when case is ignored
EqualsIgnoringCase(s, w) ==
    /\ s # PyNone
    /\ Len(s) = Len(w)
    /\ \A i \in 1..Len(w) : s[i] = w[i] \/ s[i] = UpperOf[w[i]]

LevelWord ==
    [l \in {"critical", "high", "medium", "low"} |->
        CASE l = "critical" -> sCritical
          [] l = "high" -> sHigh
          [] l = "medium" -> sMedium
          [] l = "low" -> sLow]

\* C11: for every input (a string in any casing, the empty string, null)
\* _map_grype_severity returns one of critical, high, medium, low, info: it
\* returns critical/high/medium/low exactly when the input equals that word
\* ignoring case and info for everything else.
C11_SeverityMappingTotal ==
    pc = "mapped" =>
        \A copy \in {"scoring", "scan"} :
            /\ outs[copy] \in Levels
            /\ \A l \in DOMAIN LevelWord :
                  outs[copy] = l
                      <=> EqualsIgnoringCase(outs.grype_severity, LevelWord[l])
            /\ outs[copy] = "info"
                  <=> \A l \in DOMAIN LevelWord :
                         ~EqualsIgnoringCase(outs.grype_severity, LevelWord[l])

\* "HiGh" maps to high
C11_Witness ==
    /\ pc = "mapped"
    /\ outs.grype_severity = <<"H", "i", "G", "h">>
    /\ outs.scoring = "high"
    /\ outs.scan = "high"

\* the per-severity counts of a summary, added up over the five levels
SumOverLevels(severity_counts) ==
    severity_counts["critical"] + severity_counts["high"]
    + severity_counts["medium"] + severity_counts["low"]
    + severity_counts["info"]

\* C19: the per-severity counts account for every unique vulnerability:
\* over critical, high, medium, low and info they sum to
\* unique_vulnerabilities, in the scan task's summary, in reporting's
\* summary and in the vulnerability summary placed in report_data (which
\* carries high_severity, moderate_severity and low_severity only).
C19_CountsSumToUnique ==
    report.present =>
        /\ SumOverLevels(outs.scan.severity_counts) = outs.scan.unique_vulns
        /\ SumOverLevels(outs.reporting.severity_counts)
               = outs.reporting.unique_count
        /\ outs.extract.high_severity + outs.extract.moderate_severity
               + outs.extract.low_severity
               = outs.extract.unique_vulnerabilities

\* the level a raw severity denotes: the word it equals ignoring case
CanonicalLevel(s) ==
    IF \E l \in DOMAIN LevelWord : EqualsIgnoringCase(s, LevelWord[l])
    THEN CHOOSE l \in DOMAIN LevelWord : EqualsIgnoringCase(s, LevelWord[l])
    ELSE "info"

\* positions of the raw matches whose key did not occur before
FirstPositions(matches) ==
    {i \in 1..Len(matches) :
        \A j \in 1..(i - 1) : KeyTriple(matches[j]) # KeyTriple(matches[i])}

\* the n-th smallest element of a set of positions
NthPosition(P, n) ==
    CHOOSE i \in P : Cardinality({j \in P : j < i}) = n - 1

\* C21: the scan task emits one "grype" Finding per unique (id, name,
\* version) key, its severity the mapped severity of the key's first raw
\* match, in the order in which the keys first occur in the raw match list,
\* followed by one info summary Finding whose source is the scan task.
C21_OneFindingPerKey ==
    report.present =>
        LET matches == report.matches
            P == FirstPositions(matches)
            findings == outs.scan.findings
        IN  /\ Len(findings) = Cardinality(KeysOf(matches)) + 1
            /\ \A n \in 1..Cardinality(P) :
                  findings[n] =
                      [source |-> "grype",
                       severity |-> CanonicalLevel(
                           matches[NthPosition(P, n)].vulnerability.severity)]
            /\ findings[Len(findings)] =
                   [source |-> "scan_vulnerabilities", severity |-> "info"]

\* a low key first, duplicated, then a critical key: low before critical
C21_Witness ==
    /\ report.present
    /\ Len(report.matches) = 3
    /\ KeyTriple(report.matches[1]) = KeyTriple(report.matches[2])
    /\ KeyTriple(report.matches[3]) # KeyTriple(report.matches[1])
    /\ outs.scan.findings = <<Finding("grype", "low"),
                              Finding("grype", "critical"),
                              Finding("scan_vulnerabilities", "info")>>

\* the version of a component or artifact, a missing one read as ""
VersionOf(x) == IF x.version = AtomAbsent THEN "" ELSE x.version

\* positions of the components with a bom-ref that carry the artifact's purl
PurlHits(components, artifact) ==
    {j \in 1..Len(components) :
        /\ components[j].bom_ref # AtomAbsent
        /\ components[j].purl # AtomAbsent
        /\ components[j].purl = artifact.purl}

\* positions of the components with a bom-ref, the artifact's name and the
\* artifact's version
NameVersionHits(components, artifact) ==
    {j \in 1..Len(components) :
        /\ components[j].bom_ref # AtomAbsent
        /\ components[j].name # AtomAbsent
        /\ components[j].name = artifact.name
        /\ VersionOf(components[j]) = VersionOf(artifact)}

\* the largest position of a non-empty set of positions
LastOf(P) == CHOOSE j \in P : \A k \in P : k <= j

\* C25: linking prefers the package-URL: when the artifact's purl is in the
\* SBOM's purl index the linked ref is that entry, whatever the (name,
\* version) index says; otherwise the exact (name, version) match is used;
\* when neither matches the vulnerability is unlinked, and a Finding is
\* emitted for it all the same.
C25_LinkPrefersPurl ==
    report.present =>
        LET components == sbom_data.components
            P == FirstPositions(report.matches)
        IN  /\ Len(outs.bom_refs) = Cardinality(P)
            /\ Len(outs.findings) = Cardinality(P) + 1
            /\ \A n \in 1..Cardinality(P) :
                  LET artifact == report.matches[NthPosition(P, n)].artifact
                      byPurl == PurlHits(components, artifact)
                      byName == NameVersionHits(components, artifact)
                  IN  /\ outs.findings[n].source = "grype"
                      /\ outs.bom_refs[n] =
                            IF byPurl # {}
                            THEN components[LastOf(byPurl)].bom_ref
                            ELSE IF byName # {}
                            THEN components[LastOf(byName)].bom_ref
                            ELSE "None"

\* the purl index says X, the (name, version) index says Y: linked to X
C25_Witness ==
    /\ report.present
    /\ Len(report.matches) = 1
    /\ report.matches[1].artifact = [purl |-> "p", name |-> "a",
                                     version |-> "1"]
    /\ sbom_data.components =
           <<[bom_ref |-> "X", purl |-> "p", name |-> AtomAbsent,
              version |-> AtomAbsent],
             [bom_ref |-> "Y", purl |-> AtomAbsent, name |-> "a",
              version |-> "1"]>>
    /\ outs.bom_refs = <<"X">>

\* 10, 5, 2, 1, 0 applied to per-severity counts
Weighted(severity_counts) ==
    10 * severity_counts["critical"] + 5 * severity_counts["high"]
    + 2 * severity_counts["medium"] + severity_counts["low"]
    + 0 * severity_counts["info"]

\* C26: for every vulnerability report the score of compute_risk_score is
\* the weighted sum (10, 5, 2, 1, 0) of the per-severity counts that the
\* scan task and reporting's _parse_vulnerabilities compute from the same
\* report, also when matches that share a key carry different severities.
C26_ScoreAgreesWithSummaries ==
    report.present =>
        /\ outs.score = Weighted(outs.scan.severity_counts)
        /\ outs.score = Weighted(outs.reporting.severity_counts)
        /\ outs.scan.severity_counts = outs.reporting.severity_counts

\* one key reported as Critical first and as Low afterwards: all say critical
C26_Witness ==
    /\ report.present
    /\ Len(report.matches) = 2
    /\ KeyTriple(report.matches[1]) = KeyTriple(report.matches[2])
    /\ report.matches[1].vulnerability.severity = GrypeCritical
    /\ report.matches[2].vulnerability.severity = GrypeLow
    /\ outs.score = 10
    /\ outs.scan.severity_counts["critical"] = 1
    /\ outs.reporting.severity_counts["low"] = 0

-----------------------------------------------------------------------------
(* Properties of the SBOM analyzers *)

\* the (parent, child) pairs of a dependencies array
EdgesOf(dependencies) ==
    UNION {{<<dependencies[i].ref, dependencies[i].dependsOn[j]>> :
               j \in 1..Len(dependencies[i].dependsOn)} :
           i \in {k \in 1..Len(dependencies) :
                     dependencies[k].ref # AtomAbsent}}

\* the refs an array names, as entry or as child
NodesOf(dependencies) ==
    ({dependencies[i].ref : i \in 1..Len(dependencies)} \ {AtomAbsent})
    \cup {e[2] : e \in EdgesOf(dependencies)}

\* sequences of n distinct refs
ChainsOfLength(n) ==
    {q \in [1..n -> Refs] : \A i, j \in 1..n : i # j => q[i] # q[j]}

\* the dependencies array is exactly the chain q[1] -> q[2] -> ... -> q[n]
IsLinearChain(dependencies, q) ==
    /\ EdgesOf(dependencies) = {<<q[i], q[i + 1]>> : i \in 1..(Len(q) - 1)}
    /\ NodesOf(dependencies) = Range(q)

\* C12: a strictly linear chain of n >= 2 distinct refs yields exactly one
\* root (the head), max_depth = n-1, direct_dependencies = 1 and
\* transitive_dependencies = n-2, in both analyzers.
C12_LinearChain ==
    \A n \in 2..Cardinality(Refs) : \A q \in ChainsOfLength(n) :
        IsLinearChain(sbom_data.dependencies, q) =>
            /\ analysis.locals.roots = {q[1]}
            /\ analysis.gen.root_components = 1
            /\ \A copy \in {"gen", "ext"} :
                  /\ analysis[copy].max_depth = n - 1
                  /\ analysis[copy].direct_dependencies = 1
                  /\ analysis[copy].transitive_dependencies = n - 2

\* the refs that appear in the dependsOn list of any entry
AllDependsOn(dependencies) ==
    UNION {Range(dependencies[i].dependsOn) : i \in 1..Len(dependencies)}

\* the refs that appear in the dependsOn list of an entry that has a ref
ChildRefs(dependencies) == {e[2] : e \in EdgesOf(dependencies)}

\* C13 as stated: for every SBOM input the root set is disjoint from the set
\* of refs that appear as a child in some dependsOn list.
C13_RootsNeverChildren ==
    analysis.locals.roots \cap AllDependsOn(sbom_data.dependencies) = {}

\* C13: for every SBOM input (also when the no-dependencies branch adds
\* roots) the root set is disjoint from the refs that appear as a child in
\* the dependsOn list of an entry that has a ref; entries without ref are
\* skipped.
C13_RootsNotChildrenOfRefs ==
    /\ analysis.locals.roots \cap ChildRefs(sbom_data.dependencies) = {}
    /\ analysis.locals.children = ChildRefs(sbom_data.dependencies)

\* a graph with a root and a child, and an entry without ref whose child
\* is a root
C13_Witness ==
    /\ analysis.locals.roots # {}
    /\ ChildRefs(sbom_data.dependencies) # {}
    /\ \E i \in 1..Len(sbom_data.dependencies) :
          /\ sbom_data.dependencies[i].ref = AtomAbsent
          /\ Range(sbom_data.dependencies[i].dependsOn)
                 \cap analysis.locals.roots # {}

\* the number of non-empty entries of the audited package's requires_dist
DeclaredNonEmpty ==
    IF sbom_ctx.none \/ sbom_ctx.package.none
       \/ sbom_ctx.package.requires_dist = PyNone
    THEN 0
    ELSE Cardinality({i \in 1..Len(sbom_ctx.package.requires_dist) :
                         sbom_ctx.package.requires_dist[i] # ""})

\* C14: when the SBOM has no dependency edges but at least one component and
\* requires_dist holds k > 0 non-empty entries, both analyzers report
\* direct_dependencies = k, max_depth = 1 and transitive_dependencies = 0,
\* whatever the components' types.
C14_FallbackB ==
    (/\ EdgesOf(sbom_data.dependencies) = {}
     /\ sbom_data.components # <<>>
     /\ DeclaredNonEmpty > 0)
    => \A copy \in {"gen", "ext"} :
          /\ analysis[copy].direct_dependencies = DeclaredNonEmpty
          /\ analysis[copy].max_depth = 1
          /\ analysis[copy].transitive_dependencies = 0

\* the bom-refs of the components whose declared type is library,
\* application or framework (case ignored)
LibraryLikeRefs(components) ==
    {components[i].bom_ref : i \in
        {j \in 1..Len(components) :
            /\ components[j].bom_ref # AtomAbsent
            /\ \E w \in {sLibrary, sApplication, sFramework} :
                  EqualsIgnoringCase(components[j].type, w)}}

\* C24 (Fallback A): when the SBOM has components but no dependency edges,
\* the roots are exactly the components that carry a bom-ref and whose type
\* is library, application or framework; components of another type are
\* not roots; unless declared dependencies take over (Fallback B), every
\* root has depth 0 and no direct or transitive dependency.
C24_FallbackA ==
    (/\ sbom_data.components # <<>>
     /\ EdgesOf(sbom_data.dependencies) = {})
    => /\ analysis.locals.roots = LibraryLikeRefs(sbom_data.components)
       /\ analysis.gen.root_components
              = Cardinality(LibraryLikeRefs(sbom_data.components))
       /\ DeclaredNonEmpty = 0 =>
              \A copy \in {"gen", "ext"} :
                 /\ analysis[copy].max_depth = 0
                 /\ analysis[copy].direct_dependencies = 0
                 /\ analysis[copy].transitive_dependencies = 0

C29_NoRootNoMetrics ==
    (/\ EdgesOf(sbom_data.dependencies) # {}
     /\ NodesOf(sbom_data.dependencies)
            \subseteq ChildRefs(sbom_data.dependencies))
    => /\ analysis.locals.roots = {}
       /\ analysis.locals.traversals = <<>>
       /\ analysis.gen.root_components = 0
       /\ \A copy \in {"gen", "ext"} :
             /\ analysis[copy].max_depth = 0
             /\ analysis[copy].direct_dependencies = 0
             /\ analysis[copy].transitive_dependencies = 0

\* the cycle A -> B -> A with a self-loop on B: three edges, nothing counted
C29_Witness ==
    /\ EdgesOf(sbom_data.dependencies)
           = {<<"A", "B">>, <<"B", "A">>, <<"B", "B">>}
    /\ analysis.locals.roots = {}
    /\ analysis.gen.root_components = 0
    /\ analysis.gen.max_depth = 0
    /\ analysis.ext.direct_dependencies = 0

\* no element occurs twice in q
NoDuplicates(q) == \A i, j \in 1..Len(q) : q[i] = q[j] => i = j

\* C22: the breadth-first traversal terminates for every finite dependency
\* graph, cycles and self-loops included: within one root's traversal each
\* ref is put on the queue at most once, the root never, and a ref reached
\* again through a cycle is neither enqueued again nor counted as transitive
\* when it is the root or a direct child.
C22_TraversalTerminates ==
    /\ [](pc \in {"bfs_loop", "bfs_done"} =>
             /\ NoDuplicates(outs.b.enqueued)
             /\ outs.start \notin Range(outs.b.enqueued)
             /\ outs.b.transitive \cap (outs.direct \cup {outs.start}) = {}
             /\ outs.b.transitive \cup outs.direct = Range(outs.b.enqueued))
    /\ (pc = "bfs_loop" ~> pc = "bfs_done")
    /\ [](pc = "bfs_done" =>
             LET r == bfs_depth(DepsMapOf(sbom_data), outs.start)
             IN  /\ r.depth = outs.b.max_depth_local
                 /\ r.transitive = outs.b.transitive
                 /\ r.enqueued = outs.b.enqueued)

\* root A above the cycle B -> C -> B: B and C are enqueued once each
C22_Witness ==
    /\ pc = "bfs_done"
    /\ EdgesOf(sbom_data.dependencies)
           = {<<"A", "B">>, <<"B", "C">>, <<"C", "B">>}
    /\ outs.start = "A"
    /\ outs.b.enqueued = <<"B", "C">>
    /\ outs.b.transitive = {"C"}

\* the refs that have an edge from a ref in S
ChildrenOf(S, edges) == {e[2] : e \in {d \in edges : d[1] \in S}}

\* the refs reachable from S by one edge or more
RECURSIVE ReachableFrom(_, _, _)
ReachableFrom(S, edges, found) ==
    LET more == ChildrenOf(S, edges) \ found
    IN  IF more = {} THEN found
        ELSE ReachableFrom(more, edges, found \cup more)

\* the refs without an incoming edge
GraphRoots(dependencies) ==
    (NodesOf(dependencies) \cup ChildRefs(dependencies))
        \ ChildRefs(dependencies)

\* C23: when the graph is used (no Fallback B), direct_dependencies counts
\* the union of the roots' direct children and transitive_dependencies the
\* other visited nodes; the direct set and the transitive set are disjoint
\* for every graph, also when a node is a direct child of one root and at
\* depth 2 or more below another.
C23_DirectTransitiveDisjoint ==
    sbom_data.dependencies # <<>> =>
        LET edges == EdgesOf(sbom_data.dependencies)
            roots == GraphRoots(sbom_data.dependencies)
            direct == ChildrenOf(roots, edges)
            visited == ReachableFrom(roots, edges, {})
        IN  /\ analysis.locals.direct_deps = direct
            /\ analysis.locals.transitive_deps = visited \ direct
            /\ analysis.locals.direct_deps
                   \cap analysis.locals.transitive_deps = {}
            /\ analysis.gen.direct_dependencies = Cardinality(direct)
            /\ analysis.gen.transitive_dependencies
                   = Cardinality(visited \ direct)
            /\ analysis.ext.direct_dependencies = Cardinality(direct)
            /\ analysis.ext.transitive_dependencies
                   = Cardinality(visited \ direct)

-----------------------------------------------------------------------------
(* Properties of the executor *)

IsPrefix(a, b) == Len(a) <= Len(b) /\ SubSeq(b, 1, Len(a)) = a

Last(q) == q[Len(q)]

\* the source the handler attributes the fatal error to
HandlerSource == IF err.source # "None" THEN err.source ELSE "pipeline"

\* critical Findings recorded for the failure of the failing task
CriticalForFailure ==
    {i \in 1..Len(ctx.findings) :
        /\ ctx.findings[i].severity = "critical"
        /\ ctx.findings[i].source = HandlerSource}

\* a task name of the selected chain is absent from the registry
MissingTask ==
    /\ repo_source \in DOMAIN CHAINS
    /\ \E i \in 1..Len(CHAINS[repo_source]) :
          ~get_task(CHAINS[repo_source][i])

\* C1: once a task's run raised PipelineFatalError no later task is executed
\* (neither run nor status message) and the pipeline returns at once.
C1_FatalHaltsChain ==
    /\ [](err.raised =>
            /\ pc \in {"fatal", "done"}
            /\ Len(run_calls) = index
            /\ Len(status_calls) = index
            /\ tasks[index] = err.source)
    /\ [][err.raised =>
            /\ run_calls' = run_calls
            /\ status_calls' = status_calls
            /\ (pc = "fatal" => pc' = "done" /\ result'.returned)]_vars

\* task 3 of 7 raised fatal; tasks 4..7 were never invoked
C1_Witness ==
    /\ pc = "done"
    /\ err.raised
    /\ err.source = "generate_sbom"
    /\ Len(run_calls) = 3
    /\ Len(status_calls) = 3
    /\ Len(tasks) = 7

\* C2 (as claimed): a fatal run records exactly one critical Finding for the
\* failure, counting the failing task's own and the handler's; it is last and
\* carries the error's source.
C2_ExactlyOneCritical ==
    (pc = "done" /\ err.raised) =>
        /\ Cardinality(CriticalForFailure) = 1
        /\ Last(ctx.findings) = Finding(HandlerSource, "critical")

\* C2 (amended): the handler appends exactly one critical Finding with the
\* error's source (or "pipeline"), which ends ctx.findings; with the failing
\* task's own critical Finding the run records one or two for the failure.
C2_HandlerAppendsOneCritical ==
    /\ []((pc = "done" /\ err.raised) =>
            /\ Last(ctx.findings) = Finding(HandlerSource, "critical")
            /\ Cardinality(CriticalForFailure) \in {1, 2})
    /\ [][pc = "fatal" =>
            ctx'.findings
                = Append(ctx.findings, Finding(HandlerSource, "critical"))]_vars

\* package not found: the fetch task and the handler each recorded one
C2_Witness ==
    /\ pc = "done"
    /\ err.raised
    /\ err.source \in FetchTasks
    /\ Cardinality(CriticalForFailure) = 2
    /\ Last(ctx.findings) = Finding(err.source, "critical")

\* C3 (as claimed): no exception ever escapes run_pipeline.
C3_NoExceptionEscapes == raised = "None" /\ pc # "raised"

\* C3 (amended): run_pipeline returns an AuditResult when all tasks return or
\* one raises PipelineFatalError (which never escapes); ValueError escapes for
\* an unset or unknown repo_source and for a missing task, and any other
\* exception raised inside a task escapes too.
C3_ReturnsOrRaises ==
    /\ pc = "done" => result.returned /\ raised = "None"
    /\ err.raised => raised = "None"
    /\ pc = "raised" => ~result.returned /\ raised \in {"ValueError", "Exception"}
    /\ raised = "ValueError" <=>
          (pc # "call" /\ (repo_source \notin DOMAIN CHAINS \/ MissingTask))
    /\ raised = "Exception" =>
          /\ run_calls # <<>>
          /\ Last(answers) = "os_error"
          /\ ~err.raised

\* a partial result after a fatal error
C3_Witness ==
    /\ pc = "done"
    /\ err.raised
    /\ result.returned
    /\ ~result.pdf_path
    /\ raised = "None"

\* C4: with a chain task missing from the registry run_pipeline appends one
\* critical "pipeline" Finding and aborts before any task's run is invoked.
C4_MissingTaskAborts ==
    /\ []((MissingTask /\ pc # "call") =>
            /\ pc = "raised"
            /\ run_calls = <<>>
            /\ status_calls = <<>>
            /\ ctx.findings = <<Finding("pipeline", "critical")>>)
    /\ [][(MissingTask /\ pc = "call") =>
            ctx'.findings
                = Append(ctx.findings, Finding("pipeline", "critical"))]_vars

\* npm chain: fetch_npm and generate_sbom resolve, download_npm is missing
C4_Witness ==
    /\ pc = "raised"
    /\ repo_source = "npm"
    /\ get_task("fetch_npm")
    /\ ~get_task("download_npm")
    /\ run_calls = <<>>
    /\ Len(ctx.findings) = 1

\* the registry answered the fetch task with a recoverable error
RecoverableFetchError ==
    /\ answers # <<>>
    /\ tasks[1] \in FetchTasks
    /\ answers[1] \in {"network", "registry_error"}

\* C5: a metadata-fetch task that gets a network or other registry error
\* appends a warning Finding and returns; the executor invokes the next task.
C5_RecoverableFetchContinues ==
    RecoverableFetchError =>
        /\ returned # <<>>
        /\ returned[1] = tasks[1]
        /\ ctx.findings[1] = Finding(tasks[1], "warning")
        /\ ~(err.raised /\ err.source = tasks[1])
        /\ pc \in {"fatal", "done", "raised"} =>
              Len(run_calls) >= 2 /\ run_calls[2] = tasks[2]

C5_Witness ==
    /\ RecoverableFetchError
    /\ pc = "done"
    /\ Len(run_calls) = 2
    /\ ctx.findings[1].severity = "warning"

OwnerPosition(source) ==
    LET owner == IF source = "grype" THEN "scan_vulnerabilities"
                 ELSE IF source = "metadata" THEN "run_analyses"
                 ELSE source
    IN  IF \E i \in 1..Len(tasks) : tasks[i] = owner
        THEN CHOOSE i \in 1..Len(tasks) : tasks[i] = owner
        ELSE 0

\* C7: ctx.findings is append-only, so the Findings of an earlier task
\* precede those of every later task or analyzer.
C7_AppendOnly ==
    /\ [][IsPrefix(ctx.findings, ctx'.findings)]_vars
    /\ [](\A i, j \in 1..Len(ctx.findings) :
            i < j => OwnerPosition(ctx.findings[i].source)
                        <= OwnerPosition(ctx.findings[j].source))

C7_Witness ==
    /\ pc = "done"
    /\ ~err.raised
    /\ Len(ctx.findings) >= 8
    /\ \E i \in 1..Len(ctx.findings) : ctx.findings[i].source = "grype"

\* C15: when a required external tool is reported not found (Syft by
\* generate_sbom, Grype by scan_vulnerabilities) the task raises the fatal
\* signal and the chain halts at that task: no task after it runs.
C15_ToolAbsentHalts ==
    \A i \in 1..Len(answers) :
        answers[i] \in {"syft_not_found", "grype_not_found"} =>
            /\ err.raised
            /\ err.source = run_calls[i]
            /\ Len(run_calls) = i
            /\ pc \in {"fatal", "done"}

\* positions of the Findings whose source is the scan task
ScanTaskFindings ==
    {k \in 1..Len(ctx.findings) :
        ctx.findings[k].source = "scan_vulnerabilities"}

\* C16: when the scan fails with GrypeError the scan task appends one
\* warning Finding, stores an empty vulnerability report, returns without
\* raising, the remaining tasks of the chain still run, and the score is 0.
C16_ScanErrorContinues ==
    \A i \in 1..Len(answers) :
        answers[i] = "grype_error" =>
            /\ run_calls[i] = "scan_vulnerabilities"
            /\ Len(returned) >= i
            /\ returned[i] = "scan_vulnerabilities"
            /\ Cardinality(ScanTaskFindings) = 1
            /\ \A k \in ScanTaskFindings : ctx.findings[k].severity = "warning"
            /\ ctx.vulns = [present |-> TRUE, matches |-> <<>>]
            /\ Len(run_calls) > i => run_calls[i + 1] = tasks[i + 1]
            /\ pc \in {"done", "raised"} => Len(run_calls) > i
            /\ (pc = "done" /\ ~err.raised) => Len(run_calls) = Len(tasks)
            /\ result.returned => result.score = 0

\* a run whose scan failed and whose other tasks all ran
C16_Witness ==
    /\ pc = "done"
    /\ \E i \in 1..Len(answers) : answers[i] = "grype_error"
    /\ Len(returned) = Len(tasks)
    /\ result.returned
    /\ result.score = 0
    /\ result.pdf_path

\* C17: the AuditResult returned after a fatal short-circuit has no
\* pdf_path and its score is compute_risk_score of the vulnerability report
\* the Context holds then (0 when none was stored); only a run in which no
\* task raised fatal returns a pdf_path, and it is ctx.report_path.
C17_PartialResult ==
    result.returned =>
        /\ result.score = compute_risk_score(ctx.vulns)
        /\ err.raised =>
              /\ ~result.pdf_path
              /\ ~ctx.vulns.present => result.score = 0
        /\ ~err.raised => result.pdf_path = ctx.report_path
        /\ result.pdf_path => ~err.raised /\ ctx.report_path

\* report generation failed after a scan that found vulnerabilities
C17_Witness ==
    /\ pc = "done"
    /\ err.raised
    /\ err.source = "generate_pdf_report"
    /\ result.returned
    /\ result.score > 0
    /\ ~result.pdf_path

\* the Findings the i-th invoked task appends in a headless run, given how
\* its collaborator answered
HeadlessTaskFindings(i) ==
    LET t == run_calls[i]
        a == answers[i]
    IN  CASE a \in {"precondition", "os_error", "render_error"} -> <<>>
          [] t \in FetchTasks ->
               <<Finding(t, CASE a = "ok" -> "info"
                              [] a = "not_found" -> "critical"
                              [] OTHER -> "warning")>>
          [] t \in DownloadTasks ->
               CASE a = "ok" -> <<Finding(t, "info")>>
                 [] a = "ok_lockfile_error" ->
                      <<Finding(t, "warning"), Finding(t, "info")>>
                 [] OTHER -> <<Finding(t, "critical")>>
          [] t = "generate_sbom" ->
               <<Finding(t, IF a = "ok" THEN "info" ELSE "critical")>>
          [] t = "scan_vulnerabilities" ->
               CASE a = "ok" -> ScanSummary(ctx.vulns.matches).findings
                 [] a = "grype_not_found" -> <<Finding(t, "critical")>>
                 [] OTHER -> <<Finding(t, "warning")>>
          [] t = "run_analyses" -> <<Finding("metadata", "info")>>
          [] OTHER -> <<Finding(t, "info")>>

RECURSIVE HeadlessFindingsUpTo(_)
HeadlessFindingsUpTo(i) ==
    IF i = 0 THEN <<>>
    ELSE HeadlessFindingsUpTo(i - 1) \o HeadlessTaskFindings(i)

\* the findings sequence of the headless run on the same inputs and the
\* same collaborator answers
HeadlessFindings ==
    (IF pc = "raised" /\ MissingTask
     THEN <<Finding("pipeline", "critical")>> ELSE <<>>)
    \o HeadlessFindingsUpTo(Len(answers))
    \o (IF pc = "done" /\ err.raised
        THEN <<Finding(err.source, "critical")>> ELSE <<>>)

\* C18: the progress sink does not influence the outcome: with log_display
\* injected or absent, the same inputs and collaborator answers give the
\* same findings sequence and the same score.
C18_SinkDoesNotInfluence ==
    /\ ctx.findings = HeadlessFindings
    /\ result.returned => result.score = compute_risk_score(ctx.vulns)

\* what task t needs from the Context is not there
MissingInput(t, c) ==
    \/ t \in DownloadTasks /\ c.package = "None"
    \/ t = "generate_sbom" /\ c.download_info # "local_path"
    \/ t = "scan_vulnerabilities" /\ ~(c.sbom.present /\ c.sbom.file_path)
    \/ t = "generate_pdf_report" /\ ~c.report_data

\* C20: after a fetch task ended with a recoverable error, ctx.package is
\* unset and the download task raises PipelineFatalError with its own name
\* as source before contacting a collaborator: the run ends there with a
\* critical Finding of the download task and generate_sbom never runs.
\* Likewise generate_sbom, scan_vulnerabilities and generate_pdf_report
\* raise it when the local path, the SBOM file path or report_data is absent.
C20_MissingInputIsFatal ==
    /\ [](RecoverableFetchError =>
            /\ ctx.package = "None"
            /\ \A i \in 1..Len(run_calls) : run_calls[i] # "generate_sbom"
            /\ Len(answers) >= 2 =>
                  /\ tasks[2] \in DownloadTasks
                  /\ answers[2] = "precondition"
                  /\ err = [raised |-> TRUE, source |-> tasks[2]]
                  /\ Len(run_calls) = 2
                  /\ pc \in {"fatal", "done"}
                  /\ pc = "done" =>
                        Last(ctx.findings) = Finding(tasks[2], "critical"))
    /\ [][(pc = "running" /\ MissingInput(CurrentTask, ctx)) =>
            /\ ~awaiting
            /\ pc' = "fatal"
            /\ err' = [raised |-> TRUE, source |-> CurrentTask]
            /\ Last(answers') = "precondition"
            /\ ctx' = ctx]_vars

\* the npm registry could not be reached; download_npm ended the run
C20_Witness ==
    /\ RecoverableFetchError
    /\ pc = "done"
    /\ answers = <<"network", "precondition">>
    /\ run_calls = <<"fetch_npm", "download_npm">>
    /\ Last(ctx.findings) = Finding("download_npm", "critical")
    /\ ~result.pdf_path

\* C28: once the tasks package is imported every task name that CHAINS
\* lists for pypi, npm and rust resolves through get_task, so for a valid
\* repo_source run_pipeline never takes the missing-task branch and reaches
\* the execution of the first task.
C28_ChainsResolve ==
    /\ \A s \in DOMAIN CHAINS :
          \A i \in 1..Len(CHAINS[s]) : get_task(CHAINS[s][i])
    /\ (repo_source \in DOMAIN CHAINS /\ pc # "call") =>
          /\ index >= 1
          /\ Len(tasks) = Len(CHAINS[repo_source])

\* C30: the fatal-error handler changes the Context only by appending one
\* Finding: package, download_info, sbom, vulns, report_path and the
\* Findings recorded before are as the failing task left them, and the
\* partial AuditResult is returned on that Context.
C30_HandlerFrame ==
    [][pc = "fatal" =>
          /\ ctx'.package = ctx.package
          /\ ctx'.download_info = ctx.download_info
          /\ ctx'.sbom = ctx.sbom
          /\ ctx'.vulns = ctx.vulns
          /\ ctx'.report_path = ctx.report_path
          /\ Len(ctx'.findings) = Len(ctx.findings) + 1
          /\ SubSeq(ctx'.findings, 1, Len(ctx.findings)) = ctx.findings
          /\ ctx' = [ctx EXCEPT !.findings =
                        Append(@, ctx'.findings[Len(ctx'.findings)])]
          /\ result'.returned
          /\ result'.score = compute_risk_score(ctx'.vulns)]_vars

\* the scan failed fatally after fetch, download and SBOM generation
C30_Witness ==
    /\ pc = "done"
    /\ err.raised
    /\ err.source = "scan_vulnerabilities"
    /\ ctx.package # "None"
    /\ ctx.download_info # "None"
    /\ ctx.sbom.present
    /\ Len(ctx.findings) >= 2
    /\ result.returned

====
